---- MODULE Spec2Model ----
(***************************************************************************)
(* Model of the form editor of Lets-Grid (src/app/edit/[id]/page.tsx):     *)
(* the layered canvases, the undo/redo history of drawing-layer snapshots, *)
(* the freehand stroke and text handlers, and the asynchronous image loads *)
(* and animation-frame callbacks the handlers start.                       *)
(*                                                                         *)
(* One action is one event handler (or one asynchronous callback) run to   *)
(* completion, followed by the React re-render and the effects whose       *)
(* dependencies the handler changed.  A handler reads the state of the     *)
(* latest render; an asynchronous callback reads the values captured when  *)
(* it was created, which are carried in the pending task.                  *)
(***************************************************************************)
EXTENDS Integers, Sequences, FiniteSets, TLC

\* ------------------------------------------------------------------ bounds
MaxLoc == 1        \* raster locations are 0..MaxLoc
MaxHist == 3       \* commits and redos are cut off at this history length
MaxLoads == 1      \* pending image loads
MaxRaf == 1        \* pending requestAnimationFrame callbacks
MaxPlace == 2      \* pending image decodes of placements

Locs == 0..MaxLoc

\* ----------------------------------------------------------------- rasters
\* A raster maps each location to a paint.  Paints are pairs of one shape.
Clear == <<"clear", "">>
FormPaint == <<"form", "">>        \* the form image
TextPaint(s) == <<"text", s>>
ImgPaint(i) == <<"img", i>>        \* an image put into a blank area

Images == {"p"}                    \* images offered for placement

Texts == {"", "a", "ab"}           \* contents of the text input

Blank == [l \in Locs |-> Clear]
FormRaster == [l \in Locs |-> FormPaint]

\* ctx.drawImage(img, 0, 0) under the context's globalCompositeOperation
DrawImage(dst, img, op) ==
  [l \in Locs |->
     IF img[l] = Clear THEN dst[l]
     ELSE IF op = "source-over" THEN img[l] ELSE Clear]

\* ctx.fillText(text, x, y) in source-over
FillText(dst, text, pos) == [dst EXCEPT ![pos] = TextPaint(text)]

\* ctx.stroke(): every location covered by the current path is painted
\* (source-over) or made transparent (destination-out)
StrokePath(dst, c) ==
  [l \in Locs |->
     IF l \in c.pts
       THEN IF c.gco = "source-over" THEN <<"ink", c.style>> ELSE Clear
       ELSE dst[l]]

\* --------------------------------------------------------------- data URLs
\* canvas.toDataURL("image/png") and its decoding by an Image element
NullUrl == [kind |-> "null", px |-> Blank]
ToDataURL(raster) == [kind |-> "png", px |-> raster]
Decodes(url) == url.kind = "png"
Decode(url) == url.px

ImageData == ToDataURL(FormRaster)          \* form.imageData

\* ---------------------------------------------------- blank area detection
\* An image to analyse is made of square blocks of one gray level each
\* (r = g = b): unit pixels wide, rows[r][c] tells whether the block of row r
\* and column c is white; the other blocks have the level dark.  A frame of
\* border pixels around the image is black.
ImageWidth(img) == img.unit * Len(img.rows[1])
ImageHeight(img) == img.unit * Len(img.rows)

\* data[pixelIndex] of ctx.getImageData for the pixel (x, y)
GrayAt(img, x, y) ==
  IF /\ img.border > 0
     /\ \/ x < img.border \/ x >= ImageWidth(img) - img.border
        \/ y < img.border \/ y >= ImageHeight(img) - img.border
    THEN 0
    ELSE IF img.rows[(y \div img.unit) + 1][(x \div img.unit) + 1]
           THEN 255 ELSE img.dark

Min(a, b) == IF a < b THEN a ELSE b
Max(a, b) == IF a > b THEN a ELSE b
Abs(a) == IF a < 0 THEN 0 - a ELSE a

\* Rectangles are held in half pixels, so that half of an odd number of
\* pixels is exact; a value is a whole number of pixels when it is even.
Halves == 2
InHalves(a) == [x |-> Halves * a.x, y |-> Halves * a.y,
                width |-> Halves * a.width, height |-> Halves * a.height]

\* Math.min / Math.max of the corners: the bounding box of two rectangles
BoundingBox(a, b) ==
  LET newX == Min(a.x, b.x)
      newY == Min(a.y, b.y) IN
  [x |-> newX, y |-> newY,
   width |-> Max(a.x + a.width, b.x + b.width) - newX,
   height |-> Max(a.y + a.height, b.y + b.height) - newY]

\* --- src/lib/image-analysis.ts: averages over cells of a grid
cellSize(highTolerance) == IF highTolerance THEN 15 ELSE 20
threshold(highTolerance) == IF highTolerance THEN 220 ELSE 240

\* the loop over cx (image-analysis.ts 51-62) for a row of n pixels, added
\* up by halves
RECURSIVE RowBrightness(_, _, _, _)
RowBrightness(img, x, y, n) ==
  IF n = 0 THEN 0
  ELSE IF n = 1 THEN GrayAt(img, x, y)
  ELSE RowBrightness(img, x, y, n \div 2)
       + RowBrightness(img, x + n \div 2, y, n - n \div 2)

\* the loop over cy (image-analysis.ts 50-63) for n rows: (r + g + b) / 3 of
\* every pixel of the cell, added up
RECURSIVE TotalBrightness(_, _, _, _, _)
TotalBrightness(img, x, y, cellWidth, n) ==
  IF n = 0 THEN 0
  ELSE IF n = 1 THEN RowBrightness(img, x, y, cellWidth)
  ELSE TotalBrightness(img, x, y, cellWidth, n \div 2)
       + TotalBrightness(img, x, y + n \div 2, cellWidth, n - n \div 2)

\* the cell with corner (x, y), cut at the image's edges (43-44)
Cell(img, x, y, highTolerance) ==
  [x |-> x, y |-> y,
   width |-> Min(cellSize(highTolerance), ImageWidth(img) - x),
   height |-> Min(cellSize(highTolerance), ImageHeight(img) - y)]

\* avgBrightness > threshold (65-67)
IsBlankCell(img, c, highTolerance) ==
  TotalBrightness(img, c.x, c.y, c.width, c.height)
    > threshold(highTolerance) * (c.width * c.height)

\* the cells in the order of the loops over y and x (41-42)
Cells(img, highTolerance) ==
  LET cs == cellSize(highTolerance)
      nx == (ImageWidth(img) + cs - 1) \div cs
      ny == (ImageHeight(img) + cs - 1) \div cs IN
  [k \in 1..(nx * ny) |->
     Cell(img, ((k - 1) % nx) * cs, ((k - 1) \div nx) * cs, highTolerance)]

\* the two tests of adjacency of a cell to an area (79-83, 97-101)
Adjacent(area, c, adjacencyThreshold) ==
  \/ /\ Abs(c.x - (area.x + area.width)) < adjacencyThreshold
     /\ c.y >= area.y - adjacencyThreshold
     /\ c.y <= area.y + area.height + adjacencyThreshold
  \/ /\ Abs(c.y - (area.y + area.height)) < adjacencyThreshold
     /\ c.x >= area.x - adjacencyThreshold
     /\ c.x <= area.x + area.width + adjacencyThreshold

\* a blank cell grows the first area it is adjacent to, or is a new area
\* (71-124)
AddCell(blankAreas, c, highTolerance) ==
  LET adjacencyThreshold == IF highTolerance THEN cellSize(highTolerance) * 2
                            ELSE cellSize(highTolerance)
      hits == {i \in 1..Len(blankAreas) : Adjacent(blankAreas[i], c, adjacencyThreshold)} IN
  IF hits = {} THEN Append(blankAreas, c)
  ELSE LET i == CHOOSE h \in hits : \A g \in hits : h <= g IN
       [blankAreas EXCEPT ![i] = BoundingBox(@, c)]

\* the scan of the cells from the k-th on (41-127)
RECURSIVE ScanCells(_, _, _, _, _)
ScanCells(img, cells, k, blankAreas, highTolerance) ==
  IF k > Len(cells) THEN blankAreas
  ELSE ScanCells(img, cells, k + 1,
                 IF IsBlankCell(img, cells[k], highTolerance)
                   THEN AddCell(blankAreas, cells[k], highTolerance)
                   ELSE blankAreas,
                 highTolerance)

\* the test of the second loop (141-146)
Near(area, existingArea, overlapThreshold) ==
  /\ area.x - overlapThreshold < existingArea.x + existingArea.width
  /\ area.x + area.width + overlapThreshold > existingArea.x
  /\ area.y - overlapThreshold < existingArea.y + existingArea.height
  /\ area.y + area.height + overlapThreshold > existingArea.y

\* "Merge overlapping areas" (130-166): one pass over blankAreas from the
\* k-th on, each area growing the first merged area it is near to
RECURSIVE MergeAreas(_, _, _, _)
MergeAreas(blankAreas, k, mergedAreas, highTolerance) ==
  IF k > Len(blankAreas) THEN mergedAreas
  ELSE LET area == blankAreas[k]
           overlapThreshold == IF highTolerance THEN cellSize(highTolerance) * 2 ELSE 0
           hits == {i \in 1..Len(mergedAreas) :
                      Near(area, mergedAreas[i], overlapThreshold)} IN
       MergeAreas(blankAreas, k + 1,
                  IF hits = {} THEN Append(mergedAreas, area)
                  ELSE LET i == CHOOSE h \in hits : \A g \in hits : h <= g IN
                       [mergedAreas EXCEPT ![i] = BoundingBox(area, @)],
                  highTolerance)

\* "Filter out very small areas" (169-170)
LargeEnough(area, highTolerance) ==
  LET minSize == IF highTolerance THEN cellSize(highTolerance)
                 ELSE cellSize(highTolerance) * 2 IN
  area.width >= minSize /\ area.height >= minSize

\* "Expand areas slightly" (173-180), in half pixels: cellSize / 2 pixels are
\* cellSize half pixels
Expand(img, area, highTolerance) ==
  LET a == InHalves(area)
      cs == cellSize(highTolerance)
      x == Max(0, a.x - cs)
      y == Max(0, a.y - cs) IN
  IF highTolerance
    THEN [x |-> x, y |-> y,
          width |-> Min(Halves * ImageWidth(img) - x, a.width + Halves * cs),
          height |-> Min(Halves * ImageHeight(img) - y, a.height + Halves * cs)]
    ELSE a

\* the areas found by the first loop (41-127)
GridBlankAreas(img, highTolerance) ==
  ScanCells(img, Cells(img, highTolerance), 1, <<>>, highTolerance)

\* detectBlankAreas(imageData, highTolerance) of src/lib/image-analysis.ts,
\* from the areas found by the first loop on
GridFilteredAreas(img, blankAreas, highTolerance) ==
  LET mergedAreas == MergeAreas(blankAreas, 1, <<>>, highTolerance)
      filteredAreas == SelectSeq(mergedAreas, LAMBDA a : LargeEnough(a, highTolerance)) IN
  [k \in 1..Len(filteredAreas) |-> Expand(img, filteredAreas[k], highTolerance)]

\* --- page.tsx 1575-1831: flood fill of the bright pixels
brightnessThreshold == 235
minPixelCount == 100
maxStdDev == 15
maxAspectRatio == 5
minAspectRatioTenths == 2     \* minAspectRatio = 0.2

\* Pixels are numbered as visited is indexed: index = y * canvasWidth + x.
\* getGrayscale of a gray pixel is its level (the weights add up to 1).
BrightPixels(img) ==
  {i \in 0..(ImageWidth(img) * ImageHeight(img) - 1) :
     GrayAt(img, i % ImageWidth(img), i \div ImageWidth(img)) >= brightnessThreshold}

\* the four neighbours inside the canvas (page.tsx 1700-1713)
Neighbors(i, w, h) ==
  (IF (i % w) + 1 < w THEN {i + 1} ELSE {}) \cup
  (IF (i % w) >= 1 THEN {i - 1} ELSE {}) \cup
  (IF (i \div w) + 1 < h THEN {i + w} ELSE {}) \cup
  (IF (i \div w) >= 1 THEN {i - w} ELSE {})

\* the element of a set of one element: a value computed once
The(s) == CHOOSE x \in s : TRUE

\* the bright neighbours, not yet visited, of the pixels in the queue
NextWave(bright, v, w, h) ==
  {n \in UNION {Neighbors(p, w, h) : p \in v.frontier} :
     n \in bright /\ n \notin v.filled}

\* the pixels in the queue are taken out and their bright neighbours not
\* yet visited are marked and put in (1690-1729): f is [filled, frontier]
Wave(bright, f, w, h) ==
  The({[filled |-> p[1].filled \cup p[2], frontier |-> p[2]] :
         p \in {<<v, NextWave(bright, v, w, h)>> : v \in {f}}})

\* the while loop over the queue (1689-1730): filled are the pixels marked
\* visited by this fill, frontier those of them still in the queue; eight
\* waves are taken at a time
RECURSIVE FloodFill(_, _, _, _, _)
FloodFill(bright, filled, frontier, w, h) ==
  IF frontier = {} THEN filled
  ELSE LET f1 == Wave(bright, [filled |-> filled, frontier |-> frontier], w, h)
           f2 == Wave(bright, Wave(bright, f1, w, h), w, h)
           f4 == Wave(bright, Wave(bright, f2, w, h), w, h)
           f6 == Wave(bright, Wave(bright, f4, w, h), w, h) IN
       The({FloodFill(bright, f8.filled, f8.frontier, w, h) :
              f8 \in {Wave(bright, Wave(bright, f6, w, h), w, h)}})

\* the scan over y and x (1665-1770): the first bright pixel not yet visited
\* starts a fill; the fills in the order of the scan
RECURSIVE Fills(_, _, _)
Fills(unvisited, w, h) ==
  IF unvisited = {} THEN <<>>
  ELSE LET start == CHOOSE i \in unvisited : \A j \in unvisited : i <= j
           filled == FloodFill(unvisited, {start}, {start}, w, h) IN
       <<filled>> \o Fills(unvisited \ filled, w, h)

SetMin(s) == CHOOSE m \in s : \A n \in s : m <= n
SetMax(s) == CHOOSE m \in s : \A n \in s : m >= n

\* minX, minY, maxX, maxY of a fill (1694-1697) as a rectangle (1776-1781)
FillBox(filled, w) ==
  LET xs == {i % w : i \in filled}
      ys == {i \div w : i \in filled} IN
  [x |-> SetMin(xs), y |-> SetMin(ys),
   width |-> SetMax(xs) - SetMin(xs) + 1,
   height |-> SetMax(ys) - SetMin(ys) + 1]

\* sum and sumSq of calculateStdDev (page.tsx 1614-1622): power 1 or 2; the
\* pixels of a row, and the rows, are added up by halves
RECURSIVE RowGraySum(_, _, _, _, _)
RowGraySum(img, x, y, n, power) ==
  IF n = 0 THEN 0
  ELSE IF n = 1
    THEN LET gray == GrayAt(img, x, y) IN IF power = 1 THEN gray ELSE gray * gray
  ELSE RowGraySum(img, x, y, n \div 2, power)
       + RowGraySum(img, x + n \div 2, y, n - n \div 2, power)

RECURSIVE GraySum(_, _, _, _, _, _)
GraySum(img, x, y, w, n, power) ==
  IF n = 0 THEN 0
  ELSE IF n = 1 THEN RowGraySum(img, x, y, w, power)
  ELSE GraySum(img, x, y, w, n \div 2, power)
       + GraySum(img, x, y + n \div 2, w, n - n \div 2, power)

\* stdDev <= maxStdDev for calculateStdDev over the box (1599-1628, 1755):
\* sumSq / count - mean * mean <= maxStdDev * maxStdDev, in whole numbers.
\* With sum = q * count + r the test is
\* sumSq <= count * (q * q + maxStdDev * maxStdDev) + 2 * q * r + r * r / count.
StdDevWithin(img, box) ==
  LET endX == Min(box.x + box.width, ImageWidth(img))
      endY == Min(box.y + box.height, ImageHeight(img))
      count == (endX - box.x) * (endY - box.y)
      sum == GraySum(img, box.x, box.y, endX - box.x, endY - box.y, 1)
      sumSq == GraySum(img, box.x, box.y, endX - box.x, endY - box.y, 2)
      q == sum \div count
      r == sum % count IN
  \/ count = 0
  \/ sumSq <= count * (q * q + maxStdDev * maxStdDev) + 2 * q * r + (r * r) \div count

\* validAspectRatio (1748-1753)
ValidAspectRatio(compWidth, compHeight) ==
  \/ /\ 10 * compWidth >= minAspectRatioTenths * compHeight
     /\ compWidth <= maxAspectRatio * compHeight
  \/ /\ 10 * compHeight >= minAspectRatioTenths * compWidth
     /\ compHeight <= maxAspectRatio * compWidth

\* "Component Analysis" (1733-1765)
ValidComponent(img, filled) ==
  /\ Cardinality(filled) >= minPixelCount
  /\ StdDevWithin(img, FillBox(filled, ImageWidth(img)))
  /\ ValidAspectRatio(FillBox(filled, ImageWidth(img)).width,
                      FillBox(filled, ImageWidth(img)).height)

\* components.map (1776-1781): the boxes of the valid components
ComponentAreas(img) ==
  LET fills == Fills(BrightPixels(img), ImageWidth(img), ImageHeight(img))
      components == SelectSeq(fills, LAMBDA f : ValidComponent(img, f)) IN
  [k \in 1..Len(components) |-> FillBox(components[k], ImageWidth(img))]

\* the test for overlap of the merge loop (1794-1799)
Overlap(a, b) ==
  /\ a.x < b.x + b.width
  /\ a.x + a.width > b.x
  /\ a.y < b.y + b.height
  /\ a.y + a.height > b.y

\* while (merged) (1785-1819): the first overlapping pair i < j in the order
\* of the two loops is merged into the i-th and the j-th removed, until no
\* pair overlaps
RECURSIVE MergeLoop(_)
MergeLoop(blankAreas) ==
  LET pairs == {p \in (1..Len(blankAreas)) \X (1..Len(blankAreas)) :
                  p[1] < p[2] /\ Overlap(blankAreas[p[1]], blankAreas[p[2]])} IN
  IF pairs = {} THEN blankAreas
  ELSE LET p == CHOOSE q \in pairs :
                  \A r \in pairs : q[1] < r[1] \/ (q[1] = r[1] /\ q[2] <= r[2])
           a == BoundingBox(blankAreas[p[1]], blankAreas[p[2]])
           grown == [blankAreas EXCEPT ![p[1]] = a] IN
       MergeLoop(SubSeq(grown, 1, p[2] - 1) \o SubSeq(grown, p[2] + 1, Len(grown)))

\* detectBlankAreas(imageData) of page.tsx 1630-1831, from the valid
\* components' boxes on
FloodMergedAreas(blankAreas) ==
  LET merged == MergeLoop(blankAreas) IN
  [k \in 1..Len(merged) |-> InHalves(merged[k])]

\* ------------------------------------------------------------ Number
\* The arithmetic of the placement handlers is that of Number: IEEE 754
\* binary64, every operation rounded to the nearest value of 53 significant
\* bits, ties to even.  A Number here is [neg, m, e] with the value
\* (-1)^neg * m * 2^e; m is a natural number held as a sequence of limbs of
\* LimbBits bits, the lowest first, none for 0.  The exponents of the values
\* that occur are far from the limits of binary64.
LimbBits == 15
LimbBase == 32768
SignificandBits == 53

\* 2^n for n up to LimbBits
Pow2(n) ==
  <<1, 2, 4, 8, 16, 32, 64, 128, 256, 512, 1024, 2048, 4096, 8192, 16384,
    32768>>[n + 1]

\* without the limbs 0 at the high end
Norm(a) ==
  LET used == {i \in 1..Len(a) : a[i] # 0} IN
  IF used = {} THEN <<>> ELSE SubSeq(a, 1, SetMax(used))

\* a natural number below 2^31
BigOf(n) ==
  Norm(<<n % LimbBase, (n \div LimbBase) % LimbBase, n \div (LimbBase * LimbBase)>>)

Limb(a, i) == IF i <= Len(a) THEN a[i] ELSE 0

\* a + b: limb i takes a carry if a lower limb j overflows and the limbs
\* between pass the carry on
BigAdd(a, b) ==
  LET n == Max(Len(a), Len(b))
      carry(i) ==
        IF \E j \in 1..(i - 1) :
             /\ Limb(a, j) + Limb(b, j) >= LimbBase
             /\ \A k \in (j + 1)..(i - 1) : Limb(a, k) + Limb(b, k) = LimbBase - 1
          THEN 1 ELSE 0 IN
  Norm([i \in 1..(n + 1) |-> (Limb(a, i) + Limb(b, i) + carry(i)) % LimbBase])

\* a - b for a >= b, with borrows as BigAdd has carries
BigSub(a, b) ==
  LET borrow(i) ==
        IF \E j \in 1..(i - 1) :
             /\ Limb(a, j) < Limb(b, j)
             /\ \A k \in (j + 1)..(i - 1) : Limb(a, k) = Limb(b, k)
          THEN 1 ELSE 0 IN
  Norm([i \in 1..Len(a) |-> (a[i] - Limb(b, i) - borrow(i) + LimbBase) % LimbBase])

\* -1, 0 or 1 as a is below, equal to or above b
BigCmp(a, b) ==
  LET differ == {i \in 1..Len(a) : a[i] # Limb(b, i)} IN
  IF Len(a) < Len(b) THEN -1
  ELSE IF Len(a) > Len(b) THEN 1
  ELSE IF differ = {} THEN 0
  ELSE IF a[SetMax(differ)] < b[SetMax(differ)] THEN -1 ELSE 1

\* a * k for 0 <= k < LimbBase: the low and the high parts of the products
\* of the limbs
MulSmall(a, k) ==
  BigAdd(Norm([i \in 1..Len(a) |-> (a[i] * k) % LimbBase]),
         Norm([i \in 1..(Len(a) + 1) |->
                 IF i = 1 THEN 0 ELSE (a[i - 1] * k) \div LimbBase]))

\* a * LimbBase^n
ShiftLimbs(a, n) ==
  IF a = <<>> THEN <<>>
  ELSE [i \in 1..(Len(a) + n) |-> IF i <= n THEN 0 ELSE a[i - n]]

RECURSIVE BigMulFrom(_, _, _)
BigMulFrom(a, b, j) ==
  IF j > Len(b) THEN <<>>
  ELSE BigAdd(ShiftLimbs(MulSmall(a, b[j]), j - 1), BigMulFrom(a, b, j + 1))

BigMul(a, b) == BigMulFrom(a, b, 1)

\* a * 2^s
ShiftL(a, s) == ShiftLimbs(MulSmall(a, Pow2(s % LimbBits)), s \div LimbBits)

\* the whole part of a / 2^s
ShiftR(a, s) ==
  LET limbs == s \div LimbBits
      bits == s % LimbBits IN
  IF limbs >= Len(a) THEN <<>>
  ELSE Norm([i \in 1..(Len(a) - limbs) |->
               (Limb(a, i + limbs) \div Pow2(bits))
                 + (Limb(a, i + limbs + 1) % Pow2(bits)) * Pow2(LimbBits - bits)])

\* bit i of a, the lowest being bit 0
Bit(a, i) == (Limb(a, (i \div LimbBits) + 1) \div Pow2(i % LimbBits)) % 2

\* one of the s lowest bits of a is 1
LowBits(a, s) == \E i \in 0..(s - 1) : Bit(a, i) = 1

\* the number of bits of a
BitLen(a) ==
  IF a = <<>> THEN 0
  ELSE LimbBits * (Len(a) - 1)
         + CHOOSE k \in 1..LimbBits : Pow2(k - 1) <= a[Len(a)] /\ a[Len(a)] < Pow2(k)

\* long division of n by d, limb by limb, for d whose highest limb is at
\* least LimbBase / 2.  The digit of the quotient is estimated from the two
\* highest limbs of what is left and the highest of d: the estimate is at
\* most 2 too large.
RECURSIVE CorrectDigit(_, _, _)
CorrectDigit(cur, d, digit) ==
  IF BigCmp(MulSmall(d, digit), cur) > 0 THEN CorrectDigit(cur, d, digit - 1)
  ELSE digit

QuotientDigit(cur, d) ==
  CorrectDigit(cur, d,
               Min(LimbBase - 1,
                   (Limb(cur, Len(d) + 1) * LimbBase + Limb(cur, Len(d)))
                     \div d[Len(d)]))

\* the quotient q and the remainder r of the limbs of n from limb i up; the
\* Len(d) - 1 highest limbs of n are below d
RECURSIVE BigDivFrom(_, _, _)
BigDivFrom(n, d, i) ==
  IF i > Len(n) - Len(d) + 1
    THEN [q |-> <<>>, r |-> Norm(SubSeq(n, Max(i, 1), Len(n)))]
  ELSE LET above == BigDivFrom(n, d, i + 1)
           cur == Norm(<<n[i]>> \o above.r) IN
       IF BigCmp(cur, d) < 0 THEN [q |-> ShiftLimbs(above.q, 1), r |-> cur]
       ELSE LET digit == QuotientDigit(cur, d) IN
            [q |-> <<digit>> \o above.q, r |-> BigSub(cur, MulSmall(d, digit))]

\* the Number nearest to (-1)^neg * (m + f) * 2^e, where 0 <= f < 1 and
\* f > 0 exactly if more is set: round to nearest, ties to even
Round(neg, m, e, more) ==
  LET s == BitLen(m) - SignificandBits IN
  IF s <= 0 THEN [neg |-> neg /\ m # <<>>, m |-> m, e |-> e]
  ELSE LET q == ShiftR(m, s)
           half == Bit(m, s - 1) = 1
           rest == more \/ LowBits(m, s - 1)
           up == half /\ (rest \/ Bit(q, 0) = 1) IN
       [neg |-> neg, m |-> IF up THEN BigAdd(q, BigOf(1)) ELSE q, e |-> e + s]

\* an integer and a number of halves as Numbers
Whole(n) == [neg |-> FALSE, m |-> BigOf(n), e |-> 0]
Half(n) == [neg |-> FALSE, m |-> BigOf(n), e |-> -1]

Negate(a) == [a EXCEPT !.neg = ~a.neg /\ a.m # <<>>]

\* sums and products before rounding
ExactAdd(a, b) ==
  LET e == Min(a.e, b.e)
      ma == ShiftL(a.m, a.e - e)
      mb == ShiftL(b.m, b.e - e) IN
  IF a.neg = b.neg THEN [neg |-> a.neg, m |-> BigAdd(ma, mb), e |-> e]
  ELSE IF BigCmp(ma, mb) = 0 THEN [neg |-> FALSE, m |-> <<>>, e |-> e]
  ELSE IF BigCmp(ma, mb) > 0 THEN [neg |-> a.neg, m |-> BigSub(ma, mb), e |-> e]
  ELSE [neg |-> b.neg, m |-> BigSub(mb, ma), e |-> e]

ExactMul(a, b) ==
  [neg |-> a.neg # b.neg /\ a.m # <<>> /\ b.m # <<>>,
   m |-> BigMul(a.m, b.m), e |-> a.e + b.e]

\* a < b, a <= b and a = b as values
Less(a, b) ==
  LET d == ExactAdd(a, Negate(b)) IN d.m # <<>> /\ d.neg

SameValue(a, b) == ExactAdd(a, Negate(b)).m = <<>>

AtMost(a, b) == Less(a, b) \/ SameValue(a, b)

\* the operators +, -, *, / and Math.min of Number
Plus(a, b) == LET sum == ExactAdd(a, b) IN Round(sum.neg, sum.m, sum.e, FALSE)
Minus(a, b) == Plus(a, Negate(b))
Times(a, b) ==
  LET product == ExactMul(a, b) IN Round(product.neg, product.m, product.e, FALSE)

\* a / b for b # 0: a quotient of at least SignificandBits + 2 bits and
\* whether the division left a remainder; both are shifted to bring the
\* highest limb of the divisor to LimbBase / 2 or more
Over(a, b) ==
  IF a.m = <<>> THEN [neg |-> FALSE, m |-> <<>>, e |-> 0]
  ELSE LET k == Max(0, SignificandBits + 2 + BitLen(b.m) - BitLen(a.m))
           t == (LimbBits - (BitLen(b.m) % LimbBits)) % LimbBits
           d == BigDivFrom(ShiftL(a.m, k + t), ShiftL(b.m, t), 1) IN
       Round(a.neg # b.neg, d.q, a.e - b.e - k, d.r # <<>>)

\* the first of two values, whichever is less
FirstOf(a, b) == a

MathMin(a, b) == IF Less(b, a) THEN b ELSE a

\* --- the drawImage calls of the placement handlers (page.tsx 711-744 and
\* 1057-1090, the same code).  img is [width, height] in pixels, area is
\* clickedArea with x, y, width and height in half pixels.  The result is
\* the source and the destination rectangle of the call.
WholeImage(img) ==
  [x |-> Whole(0), y |-> Whole(0), width |-> Whole(img.width), height |-> Whole(img.height)]

AreaRect(area) ==
  [x |-> Half(area.x), y |-> Half(area.y),
   width |-> Half(area.width), height |-> Half(area.height)]

\* the whole image drawn onto the area, without a crop
Stretch(img, area) == [s |-> WholeImage(img), d |-> AreaRect(area)]

\* if (adaptiveUpload): crop and scale the image to fill the area
CropFill(img, area) ==
  LET sourceAspect == Over(Whole(img.width), Whole(img.height))
      targetAspect == Over(Half(area.width), Half(area.height)) IN
  IF Less(targetAspect, sourceAspect)
    THEN LET sWidth == Times(Whole(img.height), targetAspect)
             sx == Over(Minus(Whole(img.width), sWidth), Whole(2)) IN
         [s |-> [x |-> sx, y |-> Whole(0), width |-> sWidth, height |-> Whole(img.height)],
          d |-> AreaRect(area)]
    ELSE LET sHeight == Over(Whole(img.width), targetAspect)
             sy == Over(Minus(Whole(img.height), sHeight), Whole(2)) IN
         [s |-> [x |-> Whole(0), y |-> sy, width |-> Whole(img.width), height |-> sHeight],
          d |-> AreaRect(area)]

\* else: scale the image to fit within the area
Letterbox(img, area) ==
  LET scale == MathMin(Over(Half(area.width), Whole(img.width)),
                       Over(Half(area.height), Whole(img.height)))
      newWidth == Times(Whole(img.width), scale)
      newHeight == Times(Whole(img.height), scale)
      x == Plus(Half(area.x), Over(Minus(Half(area.width), newWidth), Whole(2)))
      y == Plus(Half(area.y), Over(Minus(Half(area.height), newHeight), Whole(2))) IN
  [s |-> WholeImage(img),
   d |-> [x |-> x, y |-> y, width |-> newWidth, height |-> newHeight]]

AdaptiveFit(img, area, adaptiveUpload) ==
  IF adaptiveUpload THEN CropFill(img, area) ELSE Letterbox(img, area)

\* a placement before the image has loaded: the image's size, clickedArea
\* and adaptiveUpload; drawn is set by img.onload, and s and d are then the
\* source and the destination rectangle of its drawImage call
NoRect == [x |-> Whole(0), y |-> Whole(0), width |-> Whole(0), height |-> Whole(0)]

ToPlace(img, area, adaptiveUpload) ==
  [img |-> img, area |-> area, adaptiveUpload |-> adaptiveUpload,
   drawn |-> FALSE, s |-> NoRect, d |-> NoRect]

NoFit == ToPlace([width |-> 1, height |-> 1],
                 [x |-> 0, y |-> 0, width |-> 2, height |-> 2], FALSE)

\* --- the loops of detectBlankAreas (page.tsx 1665-1819) one iteration at a
\* time.  index is the position of the scan, visited the pixels with
\* visited[index] set, queue the flood fill's queue, count and box
\* currentPixels and minX..maxY, components the boxes pushed on components,
\* blankAreas the array of the merge loop.  Bookkeeping: marks and pushes
\* count the assignments to visited[i] and the pushes of pixel i, current
\* holds the pixels taken from the queue by this fill, fills those of the
\* fills ended, merges counts the merges.
NoSteps ==
  [pc |-> "scan", index |-> 0, visited |-> {}, queue |-> <<>>,
   count |-> 0, box |-> [x |-> 0, y |-> 0, width |-> 0, height |-> 0],
   components |-> <<>>, blankAreas |-> <<>>,
   marks |-> <<>>, pushes |-> <<>>, current |-> {}, fills |-> <<>>, merges |-> 0]

\* the run before the first iteration, on an image of n pixels
FirstStep(n) ==
  [NoSteps EXCEPT !.marks = [i \in 1..n |-> 0], !.pushes = [i \in 1..n |-> 0]]

NeverVisited(visited, i) == FALSE

\* if (visited[index]) continue and if (!visited[neighborIndex]) (1670, 1717)
Visited(visited, i) == i \in visited

\* gray >= brightnessThreshold (1678, 1723)
Bright(img, i) ==
  GrayAt(img, i % ImageWidth(img), i \div ImageWidth(img)) >= brightnessThreshold

\* the neighbours in the order of the array (1700-1705) that lie inside the
\* canvas (1708-1713)
NeighborsInOrder(i, w, h) ==
  (IF (i % w) + 1 < w THEN <<i + 1>> ELSE <<>>)
  \o (IF (i % w) >= 1 THEN <<i - 1>> ELSE <<>>)
  \o (IF (i \div w) + 1 < h THEN <<i + w>> ELSE <<>>)
  \o (IF (i \div w) >= 1 THEN <<i - w>> ELSE <<>>)

\* visited[i] = 1 (1681, 1724, 1767); marks is indexed from 1
Mark(r, i) ==
  [r EXCEPT !.visited = @ \cup {i}, !.marks[i + 1] = @ + 1]

\* queue.push([x, y]) (1680, 1725)
Push(r, i) ==
  [r EXCEPT !.queue = Append(@, i), !.pushes[i + 1] = @ + 1]

\* one iteration of the loop over y and x (1665-1770) up to the while loop
ScanPixel(img, r) ==
  IF Visited(r.visited, r.index) THEN [r EXCEPT !.index = @ + 1]
  ELSE IF Bright(img, r.index)
    THEN [Mark(Push(r, r.index), r.index) EXCEPT
            !.pc = "fill", !.count = 0, !.current = {},
            !.box = [x |-> r.index % ImageWidth(img),
                     y |-> r.index \div ImageWidth(img),
                     width |-> 1, height |-> 1]]
  ELSE [Mark(r, r.index) EXCEPT !.index = @ + 1]

\* the loop over the neighbours (1707-1729) from the k-th on
RECURSIVE VisitNeighbors(_, _, _, _)
VisitNeighbors(img, r, neighbors, k) ==
  IF k > Len(neighbors) THEN r
  ELSE The({VisitNeighbors(img, v, neighbors, k + 1) :
              v \in {IF ~Visited(r.visited, neighbors[k]) /\ Bright(img, neighbors[k])
                       THEN Push(Mark(r, neighbors[k]), neighbors[k])
                       ELSE r}})

\* "Component Analysis" (1733-1765) after the while loop, and the scan moves on
EndFill(img, r) ==
  LET valid == /\ r.count >= minPixelCount
               /\ StdDevWithin(img, r.box)
               /\ ValidAspectRatio(r.box.width, r.box.height) IN
  [r EXCEPT !.pc = "scan", !.index = @ + 1,
            !.fills = Append(@, r.current),
            !.components = IF valid THEN Append(@, r.box) ELSE @]

\* one iteration of while (queue.length > 0) (1689-1730)
FillPixel(img, r) ==
  LET c == Head(r.queue)
      w == ImageWidth(img)
      pixel == [x |-> c % w, y |-> c \div w, width |-> 1, height |-> 1]
      taken == [r EXCEPT !.queue = Tail(@), !.count = @ + 1,
                         !.current = @ \cup {c},
                         !.box = BoundingBox(@, pixel)] IN
  The({IF after.queue = <<>> THEN EndFill(img, after) ELSE after :
         after \in {VisitNeighbors(img, taken,
                                   NeighborsInOrder(c, w, ImageHeight(img)), 1)}})

\* the first pair i < j of the two loops that overlaps (1788-1799)
OverlappingPairs(blankAreas) ==
  {p \in (1..Len(blankAreas)) \X (1..Len(blankAreas)) :
     p[1] < p[2] /\ Overlap(blankAreas[p[1]], blankAreas[p[2]])}

FirstPair(pairs) ==
  CHOOSE q \in pairs : \A r \in pairs : q[1] < r[1] \/ (q[1] = r[1] /\ q[2] <= r[2])

\* one iteration of while (merged) (1786-1819) that merges a pair
MergePair(r) ==
  LET p == FirstPair(OverlappingPairs(r.blankAreas))
      grown == [r.blankAreas EXCEPT ![p[1]] = BoundingBox(@, r.blankAreas[p[2]])] IN
  [r EXCEPT !.blankAreas = SubSeq(grown, 1, p[2] - 1)
                           \o SubSeq(grown, p[2] + 1, Len(grown)),
            !.merges = @ + 1]

\* sizes of images in pixels, and widths, heights and corners of areas in
\* half pixels (1 to 100 pixels; the corners (0, 0) and (7.5, 20))
ImageSizes ==
  {[width |-> 16, height |-> 9], [width |-> 4, height |-> 3],
   [width |-> 3, height |-> 4], [width |-> 1, height |-> 1],
   [width |-> 7, height |-> 5], [width |-> 1, height |-> 7],
   [width |-> 460, height |-> 215], [width |-> 1920, height |-> 1080],
   [width |-> 600, height |-> 900]}

AreaSides == {2, 6, 15, 30, 45, 58, 98, 200}

ClickedAreas ==
  {[x |-> c[1], y |-> c[2], width |-> w, height |-> h] :
     c \in {<<0, 0>>, <<15, 40>>}, w \in AreaSides, h \in AreaSides}

Placements ==
  {ToPlace(img, area, a) : img \in ImageSizes, area \in ClickedAreas, a \in BOOLEAN}

\* the images analysed: three by three blocks of ten pixels on black or on
\* light gray, and four rows of four blocks of twenty pixels, a row being
\* one of three
SmallImages ==
  {[unit |-> 10, rows |-> <<r1, r2, r3>>, dark |-> d, border |-> 0] :
     r1 \in [1..3 -> BOOLEAN], r2 \in [1..3 -> BOOLEAN], r3 \in [1..3 -> BOOLEAN],
     d \in {0, 230}}

FormRows == {<<FALSE, FALSE, FALSE, TRUE>>, <<TRUE, TRUE, FALSE, TRUE>>,
             <<FALSE, TRUE, TRUE, TRUE>>}

FormImages ==
  {[unit |-> 20, rows |-> <<r1, r2, r3, r4>>, dark |-> 0, border |-> 0] :
     r1 \in FormRows, r2 \in FormRows, r3 \in FormRows, r4 \in FormRows}

\* three by three blocks of five pixels on black or on gray: a block alone
\* has 25 pixels
TinyImages ==
  {[unit |-> 5, rows |-> <<r1, r2, r3>>, dark |-> d, border |-> 0] :
     r1 \in [1..3 -> BOOLEAN], r2 \in [1..3 -> BOOLEAN], r3 \in [1..3 -> BOOLEAN],
     d \in {0, 200}}

\* one row of six blocks of fifteen pixels on black
StripImages ==
  {[unit |-> 15, rows |-> <<r>>, dark |-> 0, border |-> 0] : r \in [1..6 -> BOOLEAN]}

\* white images with a black frame of one pixel
FramedImages ==
  {[unit |-> u, rows |-> [r \in 1..nr |-> [c \in 1..nc |-> TRUE]],
    dark |-> 0, border |-> 1] : u \in {12, 20}, nr \in 1..2, nc \in 1..2}

\* two rows of three pixels, white or black
DotImages ==
  {[unit |-> 1, rows |-> <<r1, r2>>, dark |-> 0, border |-> 0] :
     r1 \in [1..3 -> BOOLEAN], r2 \in [1..3 -> BOOLEAN]}

\* images for the detector run step by step: a checkerboard of four by
\* four pixels, a white image of six by five pixels, and blocks of ten
\* pixels on light gray where a white L holds one or two white blocks in the
\* corner of its bounding box
FloodImages ==
  {[unit |-> 1, dark |-> 0, border |-> 0,
    rows |-> [r \in 1..4 |-> [c \in 1..4 |-> (r + c) % 2 = 0]]],
   [unit |-> 1, dark |-> 0, border |-> 0,
    rows |-> [r \in 1..5 |-> [c \in 1..6 |-> TRUE]]],
   [unit |-> 10, dark |-> 230, border |-> 0,
    rows |-> <<<<TRUE, FALSE, TRUE>>,
               <<TRUE, FALSE, FALSE>>,
               <<TRUE, TRUE, TRUE>>>>],
   [unit |-> 10, dark |-> 230, border |-> 0,
    rows |-> <<<<TRUE, FALSE, TRUE, FALSE>>,
               <<TRUE, FALSE, FALSE, TRUE>>,
               <<TRUE, FALSE, FALSE, FALSE>>,
               <<TRUE, TRUE, TRUE, TRUE>>>>]}

\* a call of a detector: the image and what becomes of its loading ("image":
\* it loads; "nocontext": it loads and the canvas gives no 2D context;
\* "undecodable": it fails to load; "empty": it has no pixels), the detector
\* called, its highTolerance, which detector resolved ("none" before), the
\* areas it accepted before merging, in pixels, and the areas it returned,
\* in half pixels; run is the state of the loops of page.tsx
\* run one iteration at a time
NoRun(img, input, call, highTolerance) ==
  [image |-> img, input |-> input, call |-> call, by |-> "none",
   highTolerance |-> highTolerance, accepted |-> <<>>, areas |-> <<>>,
   run |-> NoSteps]

NoImage == [unit |-> 10, rows |-> <<<<FALSE>>>>, dark |-> 0, border |-> 0]
NoDetect == NoRun(NoImage, "image", "grid", TRUE)

\* the calls: detectBlankAreas(imageData, highTolerance) of
\* src/lib/image-analysis.ts and detectBlankAreas(imageData) of page.tsx 1630
Calls(images) ==
  {NoRun(img, "image", "grid", h) : img \in images, h \in BOOLEAN}
  \cup {NoRun(img, "image", "flood", FALSE) : img \in images}
  \cup {NoRun(NoImage, i, "grid", h) :
          i \in {"nocontext", "undecodable", "empty"}, h \in BOOLEAN}
  \cup {NoRun(NoImage, i, "flood", FALSE) : i \in {"nocontext", "undecodable", "empty"}}

\* 2D context state of the drawing canvas that outlives one handler
FreshCtx == [gco |-> "source-over", style |-> "default", point |-> FALSE, pts |-> {}]

\* canvas.getContext("2d") of the drawing canvas returned null
NullCtx == [gco |-> "null", style |-> "default", point |-> FALSE, pts |-> {}]

NoPointer == [k |-> "none", at |-> 0]

\* useState(null) of clickedArea and hoveredArea
NoArea == -1

\* formData.blankAreas once detected: the locations that are blank areas
Areas == {0}

NoForm == [present |-> FALSE, canvasData |-> NullUrl, drawingData |-> NullUrl,
           hasAreas |-> FALSE]

\* ------------------------------------------------------- the search dialog
\* GameSearchDialog (src/unnamed/part_002).  searchStatus is [state,
\* message]; the messages are named, not spelled out.  A game of
\* searchResults is [id, image]: image tells whether it came with a
\* gameComplete message.  abortControllerRef.current is the number of the
\* search whose AbortController it holds, NoController for null.
NoController == 0

Status(state, message) == [state |-> state, message |-> message]

\* { state: 'idle', message: '输入名称开始搜索' }  (part_002 83-86)
IdlePrompt == Status("idle", "prompt")

\* the state of the component as it is constructed (part_002 80-100); isOpen
\* is the prop, showSearchDialog of the page, mounted tells that the
\* component has not been unmounted, searches are the calls of searchGames
NoDialog ==
  [isOpen |-> FALSE, mounted |-> TRUE,
   searchTerm |-> "", searchResults |-> {}, totalResults |-> 0,
   searchStatus |-> IdlePrompt, isLoading |-> FALSE,
   abortControllerRef |-> NoController, lastSearchTerm |-> "",
   searches |-> <<>>]

\* a call of searchGames as it awaits fetch (part_002 188-230): pc is
\* "fetch", "read" (awaiting reader.read()) or "returned"; aborted: its
\* controller's abort() was called; isLoading: the value the closure holds;
\* timer and streamTimer are the timeouts of 207 and 259 ("none", "armed",
\* and "off" once fired or cleared); games, reachEnd are the locals of 251-256; reads
\* counts the chunks read; reported (bookkeeping): an 'error' message or the
\* stream timeout set the status to 'error' for this search
NewSearch(isLoading) ==
  [pc |-> "fetch", aborted |-> FALSE, isLoading |-> isLoading,
   timer |-> "armed", streamTimer |-> "none",
   games |-> {}, reachEnd |-> FALSE, reads |-> 0, reported |-> FALSE]

\* total of an 'init' message that has one
TotalFound == 2

\* the lines of a response body: messages of the route and a line that is
\* not one
Messages ==
  {[type |-> "init", id |-> 0], [type |-> "total", id |-> 0],
   [type |-> "gameStart", id |-> 1], [type |-> "gameComplete", id |-> 1],
   [type |-> "gameError", id |-> 1],
   [type |-> "error", id |-> 0], [type |-> "end", id |-> 0]}

Msg(type, id) == [type |-> type, id |-> id]

\* what reader.read() may deliver at once: one line, or two
Chunks ==
  {<<m>> : m \in Messages}
  \cup {<<Msg("error", 0), Msg("end", 0)>>,
        <<Msg("gameStart", 1), Msg("end", 0)>>,
        <<Msg("gameStart", 1), Msg("error", 0)>>}

NeverCurrent(s, ref) == FALSE

AlwaysCurrent(s, ref) == TRUE

\* currentAbortController === abortControllerRef.current  (part_002 208,
\* 233, 260, 271, 280, 382, 402)
IsCurrent(s, ref) == s = ref

\* abortControllerRef.current.abort(); abortControllerRef.current = null
\* when there is a controller  (part_002 113-116, 123-127, 182-186, 497-500)
AbortCurrent(d) ==
  IF d.abortControllerRef = NoController THEN d
  ELSE [d EXCEPT !.searches[d.abortControllerRef].aborted = TRUE,
                 !.abortControllerRef = NoController]

\* the effect of part_002 103-118 after a render in which isOpen or
\* searchResults.length differs from the render before
OpenEffect(old, new) ==
  IF /\ new.isOpen = old.isOpen
     /\ Cardinality(new.searchResults) = Cardinality(old.searchResults)
    THEN new
  ELSE IF new.isOpen
    THEN [new EXCEPT !.isLoading = FALSE,
                     !.searchStatus = IF new.searchResults # {}
                                        THEN Status("success", "")
                                        ELSE IdlePrompt]
  ELSE AbortCurrent(new)

\* receivedGames.set(data.game.id, data.game)  (part_002 322-325, 331-334)
SetGame(games, id, image) ==
  {g \in games : g.id # id} \cup {[id |-> id, image |-> image]}

\* the status set when the stream ends (part_002 349-356, 373-377)
EndStatus(games, message) ==
  IF games # {} THEN Status("success", "") ELSE Status("no-results", message)

\* the switch over data.type for one line of search s (part_002 303-358)
OnMessage(d, s, m) ==
  IF m.type = "init"
    THEN [d EXCEPT !.searchStatus = Status("searching", "in progress")]
  ELSE IF m.type = "total"
    THEN [d EXCEPT !.totalResults = TotalFound,
                   !.searchStatus = Status("searching", "found")]
  ELSE IF m.type \in {"gameStart", "gameComplete"}
    THEN LET games == SetGame(d.searches[s].games, m.id, m.type = "gameComplete") IN
         [d EXCEPT !.searches[s].games = games, !.searchResults = games]
  ELSE IF m.type = "error"
    THEN [d EXCEPT !.searchStatus = Status("error", "server"),
                   !.searches[s].reported = TRUE]
  ELSE IF m.type = "end"
    THEN [d EXCEPT !.searches[s].reachEnd = TRUE,
                   !.searches[s].streamTimer = "off",
                   !.searchStatus = EndStatus(d.searches[s].games, "server")]
  ELSE d

\* for (const line of lines) (part_002 297-362) from the k-th line on
RECURSIVE OnLines(_, _, _, _)
OnLines(d, s, lines, k) ==
  IF k > Len(lines) THEN d
  ELSE The({OnLines(e, s, lines, k + 1) : e \in {OnMessage(d, s, lines[k])}})

\* the catch block of searchGames (part_002 380-399) for an error named name
Catch(d, s, name) ==
  IF ~IsCurrent(s, d.abortControllerRef) THEN d
  ELSE IF name = "AbortError" THEN d
  ELSE [d EXCEPT !.searchStatus = Status("error", "failed")]

\* searchGames returns: its locals are no more
Returned(search) ==
  [search EXCEPT !.pc = "returned", !.games = {}, !.reachEnd = FALSE,
                 !.reads = 0]

\* the finally block (part_002 400-409), and searchGames returns
Finally(d, s) ==
  IF IsCurrent(s, d.abortControllerRef)
    THEN [d EXCEPT !.searches[s] = Returned([@ EXCEPT !.timer = "off"]),
                   !.isLoading = FALSE,
                   !.abortControllerRef = NoController]
    ELSE [d EXCEPT !.searches[s] = Returned(@)]

\* after the while loop (part_002 370-378)
AfterStream(d, s) ==
  IF d.searches[s].reachEnd THEN d
  ELSE [d EXCEPT !.searches[s].streamTimer = "off",
                 !.searchStatus = EndStatus(d.searches[s].games, "none found")]

\* ------------------------------------------- the bangumi-search route
\* GET of src/app/api/bangumi-search/route.ts (src/unnamed/part_003 is its
\* earlier version: one mode, no preheating call).  A request is [query,
\* preheating, mode]; query is "" when the parameter q is missing.
Requests ==
  {[query |-> q, preheating |-> p, mode |-> m] :
     q \in {"", "test", "q"}, p \in BOOLEAN, m \in {"subject", "character"}}

\* const isPreheating = query === "test" && searchParams.has("preheating")
\* (route.ts 59)
IsPreheating(req) == req.query = "test" /\ req.preheating

\* the route before a request: pc is the place in GET and doSearch; status
\* is that of the response; written are the chunks the writer took; writer
\* is "none", "open", "closed" or "errored" (the client went away); closes
\* counts the calls of writer.close() that closed it and late the writes
\* refused because it was closed; items are the entries of data.list or
\* data.data still to send; threw: the last await rejected
NoRoute ==
  [pc |-> "idle", request |-> [query |-> "", preheating |-> FALSE, mode |-> "subject"],
   status |-> 0, written |-> <<>>, writer |-> "none", closes |-> 0, late |-> 0,
   items |-> <<>>, empty |-> FALSE, threw |-> FALSE]

\* what fetchWithRetry and response.json() come to (route.ts 267-289): the
\* fetch throws; the response is not ok; its body is not JSON; the JSON has
\* no list; it has a list of entries with an image, without one, or null
Entries == {"image", "no image", "null"}

Upstream ==
  {[kind |-> k, items |-> <<>>] : k \in {"throws", "not ok", "not json", "no list"}}
  \cup {[kind |-> "list", items |-> <<>>]}
  \cup {[kind |-> "list", items |-> <<a>>] : a \in Entries}
  \cup {[kind |-> "list", items |-> <<a, b>>] : a \in Entries, b \in Entries}

Chunk(type, message) == [type |-> type, message |-> message]

\* await writer.write(chunk): the chunk is taken while the writer is open;
\* the call rejects on a closed writer and on one the client left
WriterWrite(r, chunk) ==
  IF r.threw THEN r
  ELSE IF r.writer = "open" THEN [r EXCEPT !.written = Append(@, chunk)]
  ELSE [r EXCEPT !.threw = TRUE,
                 !.late = IF r.writer = "closed" THEN @ + 1 ELSE @]

\* await writer.close()
WriterClose(r) ==
  IF r.threw THEN r
  ELSE IF r.writer = "open" THEN [r EXCEPT !.writer = "closed", !.closes = @ + 1]
  ELSE [r EXCEPT !.threw = TRUE]

SendEndWithoutClose(r, message) == WriterWrite(r, Chunk("end", message))

\* sendEndMessage (route.ts 170-175)
SendEndMessage(r, message) ==
  WriterClose(WriterWrite(r, Chunk("end", message)))

\* sendGameData (route.ts 90-167) for an entry: gameStart, then
\* gameComplete, and gameError from its catch blocks
SendGameData(r, entry) ==
  LET sent == WriterWrite(WriterWrite(r, Chunk("gameStart", entry)),
                          Chunk("gameComplete", entry)) IN
  IF sent.threw
    THEN WriterWrite([sent EXCEPT !.threw = FALSE], Chunk("gameError", entry))
    ELSE sent

\* an await of doSearch's try block has settled: it goes on at pc, or its
\* catch block runs
Goes(r, pc) ==
  IF r.threw THEN [r EXCEPT !.threw = FALSE, !.pc = "catch"]
  ELSE [r EXCEPT !.pc = pc]

\* the message of an 'end' after the entries (route.ts 334-341, 365-372)
NoneFound(req) == IF req.mode = "character" THEN "no character" ELSE "no content"

\* -------------------------------------------------------- fetchWithRetry
\* fetchWithRetry of src/app/api/bangumi-search/route.ts 19-44.  delay is a
\* number of milliseconds num / den; the products by 1.5 are exact in a
\* double for the delays and retries used.
MaxRetries == 2

Delays == {500, 1000}

Ms(n) == [num |-> n, den |-> 1]

\* what an attempt's fetch comes to: an error thrown, or a response
Errors == {"TypeError", "AbortError"}

Outcomes ==
  {[threw |-> TRUE, error |-> e, status |-> 0] : e \in Errors}
  \cup {[threw |-> FALSE, error |-> "", status |-> st] : st \in {200, 500}}

\* before a call: i and delay are the function's variables, lastError the
\* error kept (attempt and kind; <<>> while undefined), attempts the
\* outcomes of the calls of fetch, waits the delays waited for, result the
\* response returned, thrown the error thrown
NoRetry ==
  [pc |-> "idle", retries |-> 0, first |-> Ms(0), delay |-> Ms(0), i |-> 0,
   lastError |-> <<>>, attempts |-> <<>>, waits |-> <<>>,
   result |-> <<>>, thrown |-> <<>>]

SameDelay(d) == d

\* delay *= 1.5 (route.ts 38)
TimesOneAndAHalf(d) == [num |-> 3 * d.num, den |-> 2 * d.den]

\* i <= retries, after i++ (route.ts 27)
LoopAgain(i, retries) == i <= retries

\* ---------------------------------------------------------- the image proxy
\* src/app/api/image-proxy/route.ts.  The text of a URL is held by its
\* parts as written: scheme, userinfo (before an @), host, port and the
\* segments of the path; new URL() makes hostname and pathname of them.
Hosts == {"lain.bgm.tv", "LAIN.BGM.TV", "evil.example", "lain.bgm.tv.evil.example", ""}

Paths ==
  {<<"pic", "cover", "l.jpg">>, <<"pic", "crt", "l.jpg">>, <<"pic", "cover", "">>,
   <<"pic", "cover">>, <<"pic", "covers", "l.jpg">>, <<"x", "pic", "crt", "l.jpg">>,
   <<"pic", "cover", "..", "..", "x">>, <<"pic", "crt", ".", "l.jpg">>,
   <<"x", "..", "pic", "cover", "l.jpg">>, <<>>}

Urls ==
  {[scheme |-> s, userinfo |-> u, host |-> h, port |-> p, path |-> path] :
     s \in {"https", "http", ""}, u \in {"", "lain.bgm.tv"}, h \in Hosts,
     p \in {"", "8080"}, path \in Paths}

\* searchParams.get("url"): null when the parameter is missing, else its text
NoUrl == <<>>

\* the empty text
EmptyText ==
  [scheme |-> "", userinfo |-> "", host |-> "", port |-> "", path |-> <<>>]

UrlParams == {NoUrl} \cup {<<u>> : u \in Urls}

\* the host parser lowers the case of a domain
LowerCase(host) ==
  IF host = "LAIN.BGM.TV" THEN "lain.bgm.tv" ELSE host

\* the path parser drops a "." segment and, at "..", the segment before it
RECURSIVE RemoveDots(_, _)
RemoveDots(path, done) ==
  IF path = <<>> THEN done
  ELSE IF Head(path) = "." THEN RemoveDots(Tail(path), done)
  ELSE IF Head(path) = ".."
    THEN RemoveDots(Tail(path),
                    IF done = <<>> THEN done ELSE SubSeq(done, 1, Len(done) - 1))
  ELSE RemoveDots(Tail(path), Append(done, Head(path)))

\* new URL(url) (route.ts 13): it throws for a text without a scheme and
\* for an http(s) URL without a host
Unparsable(url) == url.scheme = "" \/ url.host = ""

UrlObj(url) ==
  [hostname |-> LowerCase(url.host), port |-> url.port,
   username |-> url.userinfo, pathname |-> RemoveDots(url.path, <<>>)]

\* pathname.startsWith("/" + a + "/" + b + "/")
StartsWith(pathname, a, b) ==
  Len(pathname) >= 3 /\ pathname[1] = a /\ pathname[2] = b

AnyHostname(url) ==
  /\ ~Unparsable(url)
  /\ \/ StartsWith(UrlObj(url).pathname, "pic", "cover")
     \/ StartsWith(UrlObj(url).pathname, "pic", "crt")

\* isValidImageUrl (route.ts 11-23)
IsValidImageUrl(url) ==
  /\ ~Unparsable(url)
  /\ UrlObj(url).hostname = "lain.bgm.tv"
  /\ \/ StartsWith(UrlObj(url).pathname, "pic", "cover")
     \/ StartsWith(UrlObj(url).pathname, "pic", "crt")

\* the proxy before a request: param is the parameter url, fetched the
\* URLs an upstream fetch was issued for, status that of the answer
NoProxy == [pc |-> "idle", param |-> NoUrl, fetched |-> {}, status |-> 0]

\* what the fetch of the image comes to (route.ts 60-135)
ImageOutcomes == {"ok", "404", "403", "AbortError", "TypeError", "body fails"}

VARIABLES
  loadPc,        \* position of loadForm
  isLoading,
  store,         \* the IndexedDB record of this form
  formData,
  history, redoHistory,
  baseCanvas, drawingCanvas, previewCanvas,
  ctx,           \* drawing canvas context state
  isDrawing, currentMode, currentTool,
  isAddingText, textInput, textPosition,
  loads,         \* pending image loads (set of tasks)
  rafQueue,      \* pending animation-frame callbacks (FIFO)
  pointer,       \* the physical gesture in progress
  track,         \* bookkeeping of the history operations since load
  clickedArea,   \* the blank area last clicked in upload mode
  showSearchDialog,
  placing,       \* pending image decodes of placements, in request order
  showBlankAreas, hoveredArea, isDragging,
  downloaded,    \* the image handed to the browser by the last download
  detect,        \* the run of the blank area detector
  fit,           \* the drawImage call of a placement
  dialog,        \* the search dialog
  route,         \* a request to the bangumi-search route
  retrying,      \* a call of fetchWithRetry
  proxy          \* a request to the image proxy

vars == <<loadPc, isLoading, store, formData, history, redoHistory,
          baseCanvas, drawingCanvas, previewCanvas, ctx,
          isDrawing, currentMode, currentTool,
          isAddingText, textInput, textPosition,
          loads, rafQueue, pointer, track,
          clickedArea, showSearchDialog, placing,
          showBlankAreas, hoveredArea, isDragging, downloaded, detect, fit,
          dialog, route, retrying, proxy>>

\* state of the drawing mode and of loading
coreVars == <<loadPc, isLoading, store, formData, history, redoHistory,
              baseCanvas, drawingCanvas, previewCanvas, ctx,
              isDrawing, currentMode, currentTool,
              isAddingText, textInput, textPosition,
              loads, rafQueue, pointer, track>>

\* state of the upload mode and of the page header's buttons, and the
\* detector's run
uploadVars == <<clickedArea, showSearchDialog, placing,
                showBlankAreas, hoveredArea, isDragging, downloaded, detect,
                fit>>

\* state of the components beside the page
webVars == <<dialog, route, retrying, proxy>>

\* history[history.length - 1]: undefined on an empty array
Last(s) == IF s = <<>> THEN NullUrl ELSE s[Len(s)]
\* history.slice(0, -1)
Front(s) == SubSeq(s, 1, Len(s) - 1)

\* if (ctx): the drawing canvas has a 2D context
HasContext == ctx # NullCtx

\* The canvases exist only once the form is shown (page.tsx 1321-1327)
Mounted == ~isLoading /\ formData.present /\ loadPc = "ready"

\* ------------------------------------------------------------------- tasks
Task(k, src, top, text, pos) ==
  [kind |-> k, src |-> src, top |-> top, text |-> text, pos |-> pos]

\* The canvas effect (page.tsx 189-234) runs after a render in which
\* formData, history, showBlankAreas or currentMode changed: it starts the
\* load of the base image, capturing formData and history of that render.
ReloadEffect(fd, hist) ==
  IF HasContext
    THEN {Task("base",
               IF fd.canvasData.kind = "png" THEN fd.canvasData ELSE ImageData,
               Last(hist), "", 0)}
    ELSE {}

\* the image loads pending at a time are cut off at track.room
Room(new) == Cardinality(loads \cup new) <= track.room

\* updateForm(updatedForm): the record put last is the record stored
UpdateForm(fd) == fd

\* Bookkeeping (not program state): what the history operations since load
\* were.  s0: the entry loadForm put in history; pure: the operations were
\* commits followed by undos only, commits and undos counting them; u undos
\* then r redos were the latest operations, base and baseRedo the stacks
\* before the first of these undos; afterCommit: no undo since the last
\* commit, which discarded dropped redo entries; stroke: the current gesture
\* began a stroke, which made gesture commits so far; room: the number of
\* image loads that may be pending at a time.
NoTrack == [s0 |-> NullUrl, commits |-> 0, undos |-> 0, pure |-> TRUE,
            base |-> <<>>, baseRedo |-> <<>>, u |-> 0, r |-> 0,
            afterCommit |-> FALSE, dropped |-> 0,
            stroke |-> FALSE, gesture |-> 0, room |-> MaxLoads]

\* drawingData of the stored record when the page opens: none, the empty
\* layer, or a layer with a brush stroke written by an earlier visit
NewDrawings == {NullUrl, ToDataURL(Blank)}
SavedDrawing ==
  ToDataURL([l \in Locs |-> IF l = 0 THEN <<"ink", "brush">> ELSE Clear])

InitState(c, drawings, runs, fits, rooms) ==
  /\ loadPc = "ensureDB"
  /\ isLoading = TRUE
  /\ store \in {[present |-> TRUE, canvasData |-> NullUrl, drawingData |-> d,
                 hasAreas |-> a] : d \in drawings, a \in BOOLEAN}
  /\ formData = NoForm
  /\ history = <<>>
  /\ redoHistory = <<>>
  /\ baseCanvas = Blank
  /\ drawingCanvas = Blank
  /\ previewCanvas = Blank
  /\ ctx = c
  /\ isDrawing = FALSE
  /\ currentMode = "upload"
  /\ currentTool = "draw"
  /\ isAddingText = FALSE
  /\ textInput = ""
  /\ textPosition = 0
  /\ loads = {}
  /\ rafQueue = <<>>
  /\ pointer = NoPointer
  /\ track \in {[NoTrack EXCEPT !.room = r] : r \in rooms}
  /\ clickedArea = NoArea
  /\ showSearchDialog = FALSE
  /\ placing = <<>>
  /\ showBlankAreas = FALSE
  /\ hoveredArea = NoArea
  /\ isDragging = FALSE
  /\ downloaded = NullUrl
  /\ detect \in runs
  /\ fit \in fits
  /\ dialog = NoDialog
  /\ route = NoRoute
  /\ retrying = NoRetry
  /\ proxy = NoProxy

\* the page as it is constructed, the drawing canvas giving a 2D context
Init == InitState(FreshCtx, NewDrawings, {NoDetect}, {NoFit}, {MaxLoads})

\* the page on a browser whose drawing canvas gives no 2D context
InitNoContext == InitState(NullCtx, NewDrawings, {NoDetect}, {NoFit}, {MaxLoads})

\* the page opened on a form that an earlier visit drew on
InitSaved == InitState(FreshCtx, {SavedDrawing}, {NoDetect}, {NoFit}, {MaxLoads})

\* the detector given an image, the page not yet loaded
InitDetect ==
  /\ InitState(FreshCtx, {NullUrl}, Calls(SmallImages \cup FormImages),
               {NoFit}, {MaxLoads})
  /\ ~store.hasAreas

\* the page with a second image load pending while another is
InitRace ==
  InitState(FreshCtx, {ToDataURL(Blank)}, {NoDetect}, {NoFit}, {MaxLoads + 1})

\* an image is about to be placed in the area clicked
InitFit ==
  /\ InitState(FreshCtx, {NullUrl}, {NoDetect}, Placements, {MaxLoads})
  /\ ~store.hasAreas

\* a detector is called on an image of a few pixels, or on no image
InitCalls ==
  /\ InitState(FreshCtx, {NullUrl}, Calls(DotImages), {NoFit}, {MaxLoads})
  /\ ~store.hasAreas

\* a detector is called on a small image, a strip or a framed image
InitShapes ==
  /\ InitState(FreshCtx, {NullUrl},
               Calls(TinyImages \cup StripImages \cup FramedImages),
               {NoFit}, {MaxLoads})
  /\ ~store.hasAreas

\* detectBlankAreas(imageData) of page.tsx is called on an image that loads
InitFlood ==
  /\ InitState(FreshCtx, {NullUrl},
               {NoRun(img, "image", "flood", FALSE) : img \in FloodImages},
               {NoFit}, {MaxLoads})
  /\ ~store.hasAreas

editorVars == <<history, redoHistory, baseCanvas, drawingCanvas, previewCanvas,
                ctx, isDrawing, currentMode, currentTool, isAddingText,
                textInput, textPosition, rafQueue, pointer>>

\* ---------------------------------------------------------------- loadForm
\* router.push("/") in the else branch or the catch block, then finally
LoadLeave ==
  /\ loadPc' = "left"
  /\ isLoading' = FALSE

\* the form is shown: setIsLoading(false) renders the canvases, and the
\* canvas effect runs because formData or history changed in this render
LoadFinish(fd, hist) ==
  /\ loadPc' = "ready"
  /\ isLoading' = FALSE
  /\ formData' = fd
  /\ history' = hist
  /\ loads' = ReloadEffect(fd, hist)
  /\ track' = [NoTrack EXCEPT !.s0 = Last(hist), !.room = track.room]

\* await ensureDBInitialized()
LoadEnsureDB ==
  /\ loadPc = "ensureDB"
  /\ \/ /\ loadPc' = "getForm"
        /\ UNCHANGED isLoading
     \/ LoadLeave
  /\ UNCHANGED <<store, formData, loads, track>>
  /\ UNCHANGED editorVars
  /\ UNCHANGED uploadVars
  /\ UNCHANGED webVars

\* after the form's drawingData is known: detection is needed or not
LoadAfterHistory(fd, hist) ==
  IF fd.hasAreas
    THEN LoadFinish(fd, hist)
    ELSE /\ loadPc' = "detect"
         /\ formData' = fd
         /\ history' = hist
         /\ UNCHANGED <<isLoading, loads, track>>

\* const form = await getFormById(id)
LoadGetForm ==
  /\ loadPc = "getForm"
  /\ \/ /\ store.drawingData.kind # "null"
        /\ LoadAfterHistory(store, <<store.drawingData>>)
     \/ /\ store.drawingData.kind = "null"
        /\ loadPc' = "createEmpty"
        /\ formData' = store
        /\ UNCHANGED <<isLoading, history, loads, track>>
     \/ /\ LoadLeave               \* no such form, or the request failed
        /\ UNCHANGED <<formData, history, loads, track>>
  /\ UNCHANGED <<store, redoHistory, baseCanvas, drawingCanvas, previewCanvas,
                 ctx, isDrawing, currentMode, currentTool, isAddingText,
                 textInput, textPosition, rafQueue, pointer>>
  /\ UNCHANGED uploadVars
  /\ UNCHANGED webVars

\* await createEmptyDrawingLayer(form.imageData): resolves with the PNG of a
\* transparent canvas; it never resolves when the image does not decode (no
\* onerror handler).  A 2D context is taken to be available throughout.
LoadCreateEmpty ==
  /\ loadPc = "createEmpty"
  /\ \/ LoadAfterHistory(formData, <<ToDataURL(Blank)>>)
     \/ /\ loadPc' = "hung"
        /\ UNCHANGED <<isLoading, formData, history, loads, track>>
  /\ UNCHANGED <<store, redoHistory, baseCanvas, drawingCanvas, previewCanvas,
                 ctx, isDrawing, currentMode, currentTool, isAddingText,
                 textInput, textPosition, rafQueue, pointer>>
  /\ UNCHANGED uploadVars
  /\ UNCHANGED webVars

\* const areas = await detectBlankAreas(...); await updateForm(updatedForm);
\* setFormData(updatedForm).  The detector of image-analysis.ts never
\* resolves when the image does not decode (no onerror handler).
LoadDetect ==
  /\ loadPc = "detect"
  /\ \/ /\ store' = UpdateForm([formData EXCEPT !.hasAreas = TRUE])
        /\ LoadFinish([formData EXCEPT !.hasAreas = TRUE], history)
     \/ /\ LoadLeave               \* updateForm rejected
        /\ UNCHANGED <<store, formData, history, loads, track>>
     \/ /\ loadPc' = "hung"
        /\ UNCHANGED <<isLoading, store, formData, history, loads, track>>
  /\ UNCHANGED <<redoHistory, baseCanvas, drawingCanvas, previewCanvas,
                 ctx, isDrawing, currentMode, currentTool, isAddingText,
                 textInput, textPosition, rafQueue, pointer>>
  /\ UNCHANGED uploadVars
  /\ UNCHANGED webVars


\* ----------------------------------------------------------------- history
TrackCommit(t) ==
  [t EXCEPT !.pure = t.pure /\ t.undos = 0,
            !.commits = IF t.pure /\ t.undos = 0 THEN t.commits + 1 ELSE 0,
            !.undos = 0,
            !.base = <<>>, !.baseRedo = <<>>, !.u = 0, !.r = 0,
            !.afterCommit = TRUE, !.dropped = Len(redoHistory),
            !.gesture = IF t.gesture < 2 THEN t.gesture + 1 ELSE 2]

TrackUndo(t) ==
  [t EXCEPT !.undos = IF t.pure THEN t.undos + 1 ELSE 0,
            !.base = IF t.u = 0 \/ t.r > 0 THEN history ELSE t.base,
            !.baseRedo = IF t.u = 0 \/ t.r > 0 THEN redoHistory ELSE t.baseRedo,
            !.u = IF t.r > 0 THEN 1 ELSE t.u + 1,
            !.r = 0,
            !.afterCommit = FALSE, !.dropped = 0]

TrackRedo(t) ==
  LET matched == t.u > 0 /\ t.r < t.u IN
  [t EXCEPT !.pure = FALSE, !.commits = 0, !.undos = 0,
            !.base = IF matched THEN t.base ELSE <<>>,
            !.baseRedo = IF matched THEN t.baseRedo ELSE <<>>,
            !.u = IF matched THEN t.u ELSE 0,
            !.r = IF matched THEN t.r + 1 ELSE 0]

PushFront(h, dataUrl) == <<dataUrl>> \o h

\* setHistory([...history, dataUrl])  (page.tsx 313, 392)
PushHistory(h, dataUrl) == Append(h, dataUrl)

RedoKept(redo) == redo

\* setRedoHistory([])  (page.tsx 314)
RedoAfterCommit(redo) == <<>>

SaveDrawingStateFlattening(canvas) ==
  LET dataUrl == ToDataURL(canvas)
      updatedForm == [formData EXCEPT
                        !.drawingData = dataUrl,
                        !.canvasData = ToDataURL(DrawImage(baseCanvas, canvas,
                                                           "source-over"))] IN
  /\ Len(history) < MaxHist
  /\ history' = PushHistory(history, dataUrl)
  /\ redoHistory' = RedoAfterCommit(redoHistory)
  /\ store' = UpdateForm(updatedForm)
  /\ formData' = updatedForm
  /\ Room(ReloadEffect(updatedForm, history'))
  /\ loads' = loads \cup ReloadEffect(updatedForm, history')
  /\ track' = TrackCommit(track)

\* saveDrawingState (page.tsx 307-327): snapshot of the drawing canvas, given
\* here because handleAddText draws on the canvas before it commits.  The
\* changed formData and history make the canvas effect run.
SaveDrawingState(canvas) ==
  LET dataUrl == ToDataURL(canvas)
      updatedForm == [formData EXCEPT !.drawingData = dataUrl] IN
  /\ Len(history) < MaxHist
  /\ history' = PushHistory(history, dataUrl)
  /\ redoHistory' = RedoAfterCommit(redoHistory)
  /\ store' = UpdateForm(updatedForm)
  /\ formData' = updatedForm
  /\ Room(ReloadEffect(updatedForm, history'))
  /\ loads' = loads \cup ReloadEffect(updatedForm, history')
  /\ track' = TrackCommit(track)

CanUndoAny(h) == Len(h) > 0

\* if (history.length > 1)  (page.tsx 367; the button repeats it, 1168)
CanUndo(h) == Len(h) > 1

\* if (redoHistory.length > 0)  (page.tsx 388; the button repeats it, 1178)
CanRedo(redo) == Len(redo) > 0

RedoPushedLast(currentState, redo) == Append(redo, currentState)

\* setRedoHistory([currentState, ...redoHistory])  (page.tsx 372)
RedoAfterUndo(currentState, redo) == <<currentState>> \o redo

RedoLast(redo) == redo[Len(redo)]

\* const stateToRestore = redoHistory[0]  (page.tsx 389)
StateToRestore(redo) == Head(redo)

RedoNotPopped(redo) == redo

\* const newRedoHistory = redoHistory.slice(1)  (page.tsx 390)
NewRedoHistory(redo) == Tail(redo)

\* the toolbar is shown in draw mode, and a button is pressed with no
\* canvas gesture in progress
ToolbarClick ==
  Mounted /\ currentMode = "draw" /\ pointer.k = "none" /\ ~showSearchDialog

\* handleUndo (page.tsx 366-385)
HandleUndo ==
  /\ ToolbarClick
  /\ IF CanUndo(history)
       THEN LET currentState == Last(history)
                newHistory == Front(history)
                updatedForm == [formData EXCEPT !.drawingData = Last(newHistory)] IN
            /\ history' = newHistory
            /\ redoHistory' = RedoAfterUndo(currentState, redoHistory)
            /\ store' = UpdateForm(updatedForm)
            /\ formData' = updatedForm
            /\ Room(ReloadEffect(updatedForm, newHistory))
            /\ loads' = loads \cup ReloadEffect(updatedForm, newHistory)
            /\ track' = TrackUndo(track)
       ELSE UNCHANGED <<history, redoHistory, store, formData, loads, track>>
  /\ UNCHANGED <<loadPc, isLoading, baseCanvas, drawingCanvas, previewCanvas, ctx,
                 isDrawing, currentMode, currentTool, isAddingText, textInput,
                 textPosition, rafQueue, pointer>>
  /\ UNCHANGED uploadVars
  /\ UNCHANGED webVars

\* handleRedo (page.tsx 387-406)
HandleRedo ==
  /\ ToolbarClick
  /\ IF CanRedo(redoHistory)
       THEN LET stateToRestore == StateToRestore(redoHistory)
                newRedoHistory == NewRedoHistory(redoHistory)
                updatedForm == [formData EXCEPT !.drawingData = stateToRestore] IN
            /\ history' = PushHistory(history, stateToRestore)
            /\ redoHistory' = newRedoHistory
            /\ store' = UpdateForm(updatedForm)
            /\ formData' = updatedForm
            /\ Room(ReloadEffect(updatedForm, history'))
            /\ loads' = loads \cup ReloadEffect(updatedForm, history')
            /\ track' = TrackRedo(track)
       ELSE UNCHANGED <<history, redoHistory, store, formData, loads, track>>
  /\ UNCHANGED <<loadPc, isLoading, baseCanvas, drawingCanvas, previewCanvas, ctx,
                 isDrawing, currentMode, currentTool, isAddingText, textInput,
                 textPosition, rafQueue, pointer>>
  /\ UNCHANGED uploadVars
  /\ UNCHANGED webVars

\* ------------------------------------------------- the canvas effect's loads
\* baseImg.onload (page.tsx 200-228): sizing the canvases clears them and
\* resets the drawing context; the base image is drawn and the load of the
\* snapshot captured by the effect is started
BaseLoaded ==
  /\ Mounted
  /\ \E t \in loads :
       /\ t.kind = "base"
       /\ baseCanvas' = DrawImage(Blank, Decode(t.src), "source-over")
       /\ drawingCanvas' = Blank
       /\ ctx' = FreshCtx
       /\ loads' = (loads \ {t}) \cup
                   (IF Decodes(t.top) THEN {Task("drawing", t.src, t.top, "", 0)} ELSE {})
  /\ UNCHANGED <<loadPc, isLoading, store, formData, history, redoHistory,
                 previewCanvas, isDrawing, currentMode, currentTool, isAddingText,
                 textInput, textPosition, rafQueue, pointer, track>>
  /\ UNCHANGED uploadVars
  /\ UNCHANGED webVars

\* drawingImg.onload (page.tsx 214-217)
DrawingLoaded ==
  /\ Mounted
  /\ \E t \in loads :
       /\ t.kind = "drawing"
       /\ drawingCanvas' = DrawImage(Blank, Decode(t.top), ctx.gco)
       /\ loads' = loads \ {t}
  /\ UNCHANGED <<loadPc, isLoading, store, formData, history, redoHistory,
                 baseCanvas, previewCanvas, ctx, isDrawing, currentMode, currentTool,
                 isAddingText, textInput, textPosition, rafQueue, pointer, track>>
  /\ UNCHANGED uploadVars
  /\ UNCHANGED webVars

\* ----------------------------------------------------------------- strokes
DrawTool == currentTool = "draw" \/ currentTool = "eraser"

\* updatePreview(text) (page.tsx 768-794) up to img.src: sizing the preview
\* canvas clears it, and the snapshot load captures text and textPosition
PreviewTask(text, pos, hist) ==
  IF Decodes(Last(hist)) THEN {Task("preview", NullUrl, Last(hist), text, pos)} ELSE {}

\* the upload branch of handleMouseDown / handleTouchStart (page.tsx 492-505,
\* 566-579): a click on a blank area opens the search dialog for it
ClickArea(l) ==
  IF currentMode = "upload" /\ formData.hasAreas /\ l \in Areas
    THEN /\ clickedArea' = l
         /\ showSearchDialog' = TRUE
    ELSE UNCHANGED <<clickedArea, showSearchDialog>>

\* Body of handleMouseDown / handleTouchStart (page.tsx 437-507, 510-581) at
\* location l, with the effect on textPosition (872-876) for the text tool.
\* In upload mode the handler opens the search dialog and draws nothing.
BeginAt(l) ==
  /\ ClickArea(l)
  /\ IF currentMode = "draw" /\ currentTool = "draw"
      THEN /\ isDrawing' = TRUE
           /\ ctx' = IF HasContext
                       THEN [gco |-> "source-over", style |-> "brush",
                             point |-> TRUE, pts |-> {}]
                       ELSE ctx
           /\ UNCHANGED <<textPosition, isAddingText, previewCanvas, loads>>
    ELSE IF currentMode = "draw" /\ currentTool = "eraser"
      THEN /\ isDrawing' = TRUE
           /\ ctx' = IF HasContext
                       THEN [ctx EXCEPT !.gco = "destination-out",
                                        !.point = TRUE, !.pts = {}]
                       ELSE ctx
           /\ UNCHANGED <<textPosition, isAddingText, previewCanvas, loads>>
    ELSE IF currentMode = "draw" /\ currentTool = "text"
      THEN /\ textPosition' = l
           /\ isAddingText' = TRUE
           /\ IF textInput # ""
                THEN /\ previewCanvas' = Blank
                     /\ Room(PreviewTask(textInput, l, history))
                     /\ loads' = loads \cup PreviewTask(textInput, l, history)
                ELSE UNCHANGED <<previewCanvas, loads>>
           /\ UNCHANGED <<isDrawing, ctx>>
    ELSE UNCHANGED <<isDrawing, ctx, textPosition, isAddingText, previewCanvas, loads>>

\* Body of handleMouseMove / handleTouchMove (page.tsx 583-620)
MoveTo(l) ==
  IF isDrawing /\ DrawTool /\ HasContext
    THEN LET c == IF ctx.point THEN [ctx EXCEPT !.pts = @ \cup {l}]
                  ELSE [ctx EXCEPT !.point = TRUE] IN
         /\ ctx' = c
         /\ drawingCanvas' = StrokePath(drawingCanvas, c)
    ELSE UNCHANGED <<ctx, drawingCanvas>>

\* if (isDrawing && (currentTool === "draw" || currentTool === "eraser"))
\* (page.tsx 623, 641, 657, 675)
StrokeOpen == isDrawing /\ DrawTool

\* Body of handleMouseUp / handleTouchEnd / handleMouseLeave /
\* handleTouchCancel (page.tsx 622-688).  The path and the stroke style are
\* read by stroke() during a stroke only and the next begin handler sets
\* them anew, so they are forgotten here.
EndStroke ==
  IF StrokeOpen
    THEN /\ isDrawing' = FALSE
         /\ ctx' = IF HasContext
                     THEN [gco |-> IF currentTool = "eraser" THEN "source-over"
                                   ELSE ctx.gco,
                           style |-> "default", point |-> FALSE, pts |-> {}]
                     ELSE ctx
         /\ SaveDrawingState(drawingCanvas)
    ELSE UNCHANGED <<isDrawing, ctx, history, redoHistory, store, formData, loads, track>>

GestureStart(t) == [t EXCEPT !.stroke = FALSE, !.gesture = 0]
StrokeBegun(t) == [t EXCEPT !.stroke = TRUE]

beginFrame == <<loadPc, isLoading, store, formData, history, redoHistory,
                baseCanvas, drawingCanvas, currentMode, currentTool, textInput,
                rafQueue>>
moveFrame == <<loadPc, isLoading, store, formData, history, redoHistory,
               baseCanvas, previewCanvas, isDrawing, currentMode, currentTool,
               isAddingText, textInput, textPosition, loads, rafQueue, track>>
endFrame == <<loadPc, isLoading, baseCanvas, drawingCanvas, previewCanvas,
              currentMode, currentTool, isAddingText, textInput, textPosition,
              rafQueue>>

\* onMouseDown: a button press on the canvas starts a mouse gesture
HandleMouseDown ==
  /\ Mounted /\ pointer.k = "none" /\ ~showSearchDialog
  /\ \E l \in Locs :
       /\ BeginAt(l)
       /\ pointer' = [k |-> "mouse", at |-> 0]
  /\ track' = IF isDrawing' THEN StrokeBegun(GestureStart(track)) ELSE GestureStart(track)
  /\ UNCHANGED beginFrame
  /\ UNCHANGED <<placing, showBlankAreas, hoveredArea, isDragging, downloaded, detect, fit>>
  /\ UNCHANGED webVars

\* onMouseMove: with or without a button held
HandleMouseMove ==
  /\ Mounted /\ pointer.k \in {"none", "mouse"}
  /\ \E l \in Locs :
       /\ MoveTo(l)
       /\ UNCHANGED pointer
  /\ UNCHANGED moveFrame
  /\ UNCHANGED uploadVars
  /\ UNCHANGED webVars

\* onMouseUp: ends the mouse gesture (or the button was pressed elsewhere)
HandleMouseUp ==
  /\ Mounted /\ pointer.k \in {"none", "mouse"}
  /\ EndStroke
  /\ pointer' = NoPointer
  /\ UNCHANGED endFrame
  /\ UNCHANGED uploadVars
  /\ UNCHANGED webVars

\* onMouseLeave: the mouse leaves the canvas, a button held or not
HandleMouseLeave ==
  /\ Mounted /\ pointer.k \in {"none", "mouse"}
  /\ EndStroke
  /\ pointer' = NoPointer
  /\ UNCHANGED endFrame
  /\ UNCHANGED uploadVars
  /\ UNCHANGED webVars

\* onTouchStart: a finger touches the canvas
HandleTouchStart ==
  /\ Mounted /\ pointer.k = "none" /\ ~showSearchDialog
  /\ \E l \in Locs :
       /\ BeginAt(l)
       /\ pointer' = [k |-> "touch", at |-> l]
  /\ track' = IF isDrawing' THEN StrokeBegun(GestureStart(track)) ELSE GestureStart(track)
  /\ UNCHANGED beginFrame
  /\ UNCHANGED <<placing, showBlankAreas, hoveredArea, isDragging, downloaded, detect, fit>>
  /\ UNCHANGED webVars

\* onTouchMove
HandleTouchMove ==
  /\ Mounted /\ pointer.k \in {"touch", "touchMoved"}
  /\ \E l \in Locs :
       /\ MoveTo(l)
       /\ pointer' = [k |-> "touchMoved", at |-> 0]
  /\ UNCHANGED moveFrame
  /\ UNCHANGED uploadVars
  /\ UNCHANGED webVars

\* onTouchEnd.  The handler does not call preventDefault (page.tsx 640), so
\* after a touch that did not move the browser goes on to dispatch the
\* compatibility mouse events of the tap at the same place.
HandleTouchEnd ==
  /\ Mounted /\ pointer.k \in {"touch", "touchMoved"}
  /\ EndStroke
  /\ pointer' = IF pointer.k = "touch" THEN [pointer EXCEPT !.k = "tapDown"]
                ELSE NoPointer
  /\ UNCHANGED endFrame
  /\ UNCHANGED uploadVars
  /\ UNCHANGED webVars

\* onTouchCancel: the browser takes the touch away; preventDefault is called
HandleTouchCancel ==
  /\ Mounted /\ pointer.k \in {"touch", "touchMoved"}
  /\ EndStroke
  /\ pointer' = NoPointer
  /\ UNCHANGED endFrame
  /\ UNCHANGED uploadVars
  /\ UNCHANGED webVars

\* the tap's compatibility mousedown, handled by handleMouseDown
TapMouseDown ==
  /\ Mounted /\ pointer.k = "tapDown"
  /\ BeginAt(pointer.at)
  /\ pointer' = [pointer EXCEPT !.k = "tapUp"]
  /\ track' = IF isDrawing' THEN StrokeBegun(track) ELSE track
  /\ UNCHANGED beginFrame
  /\ UNCHANGED <<placing, showBlankAreas, hoveredArea, isDragging, downloaded, detect, fit>>
  /\ UNCHANGED webVars

\* the tap's compatibility mouseup, handled by handleMouseUp
TapMouseUp ==
  /\ Mounted /\ pointer.k = "tapUp"
  /\ EndStroke
  /\ pointer' = NoPointer
  /\ UNCHANGED endFrame
  /\ UNCHANGED uploadVars
  /\ UNCHANGED webVars

\* -------------------------------------------------------------------- text
\* the text input and its button are shown while isAddingText
\* (page.tsx 1480-1547); keys go to it with no canvas gesture in progress
TextEntry == Mounted /\ isAddingText /\ pointer.k = "none"

\* handleTextInputChange (page.tsx 797-804): the animation-frame callback
\* captures updatePreview of this render, with its history and textPosition
HandleTextInputChange ==
  /\ TextEntry
  /\ Len(rafQueue) < MaxRaf
  /\ \E newText \in Texts \ {textInput} :
       /\ textInput' = newText
       /\ rafQueue' = Append(rafQueue, Task("raf", NullUrl, Last(history), newText, textPosition))
  /\ UNCHANGED <<loadPc, isLoading, store, formData, history, redoHistory,
                 baseCanvas, drawingCanvas, previewCanvas, ctx, isDrawing,
                 currentMode, currentTool, isAddingText, textPosition, loads,
                 pointer, track>>
  /\ UNCHANGED uploadVars
  /\ UNCHANGED webVars

\* the animation frame: updatePreview(newText) (page.tsx 768-794) up to img.src
UpdatePreview ==
  /\ Mounted
  /\ rafQueue # <<>>
  /\ LET f == Head(rafQueue)
         new == IF Decodes(f.top) THEN {Task("preview", NullUrl, f.top, f.text, f.pos)}
                ELSE {} IN
     /\ previewCanvas' = Blank
     /\ Room(new)
     /\ loads' = loads \cup new
  /\ rafQueue' = Tail(rafQueue)
  /\ UNCHANGED <<loadPc, isLoading, store, formData, history, redoHistory,
                 baseCanvas, drawingCanvas, ctx, isDrawing, currentMode, currentTool,
                 isAddingText, textInput, textPosition, pointer, track>>
  /\ UNCHANGED uploadVars
  /\ UNCHANGED webVars

PreviewLoadedOnDrawing ==
  /\ Mounted
  /\ \E t \in loads :
       /\ t.kind = "preview"
       /\ drawingCanvas' = FillText(DrawImage(Blank, Decode(t.top), "source-over"),
                                    t.text, t.pos)
       /\ loads' = loads \ {t}
  /\ UNCHANGED <<loadPc, isLoading, store, formData, history, redoHistory,
                 baseCanvas, previewCanvas, ctx, isDrawing, currentMode, currentTool,
                 isAddingText, textInput, textPosition, rafQueue, pointer, track>>
  /\ UNCHANGED uploadVars
  /\ UNCHANGED webVars

\* img.onload of updatePreview (page.tsx 781-792)
PreviewLoaded ==
  /\ Mounted
  /\ \E t \in loads :
       /\ t.kind = "preview"
       /\ previewCanvas' =
            IF t.text # "" THEN FillText(DrawImage(Blank, Decode(t.top), "source-over"),
                                         t.text, t.pos)
            ELSE DrawImage(Blank, Decode(t.top), "source-over")
       /\ loads' = loads \ {t}
  /\ UNCHANGED <<loadPc, isLoading, store, formData, history, redoHistory,
                 baseCanvas, drawingCanvas, ctx, isDrawing, currentMode, currentTool,
                 isAddingText, textInput, textPosition, rafQueue, pointer, track>>
  /\ UNCHANGED uploadVars
  /\ UNCHANGED webVars

\* handleCloseTextInput (page.tsx 807-824): starts the load that resets the
\* preview to the top snapshot, empties the input and hides it
CloseTask(hist) ==
  IF Decodes(Last(hist)) THEN {Task("close", NullUrl, Last(hist), "", 0)} ELSE {}

\* Escape in the text input
HandleCloseTextInput ==
  /\ TextEntry
  /\ Room(CloseTask(history))
  /\ loads' = loads \cup CloseTask(history)
  /\ textInput' = ""
  /\ isAddingText' = FALSE
  /\ UNCHANGED <<loadPc, isLoading, store, formData, history, redoHistory,
                 baseCanvas, drawingCanvas, previewCanvas, ctx, isDrawing,
                 currentMode, currentTool, textPosition, rafQueue, pointer, track>>
  /\ UNCHANGED uploadVars
  /\ UNCHANGED webVars

\* img.onload of handleCloseTextInput (page.tsx 816-819)
CloseLoaded ==
  /\ Mounted
  /\ \E t \in loads :
       /\ t.kind = "close"
       /\ previewCanvas' = DrawImage(Blank, Decode(t.top), "source-over")
       /\ loads' = loads \ {t}
  /\ UNCHANGED <<loadPc, isLoading, store, formData, history, redoHistory,
                 baseCanvas, drawingCanvas, ctx, isDrawing, currentMode, currentTool,
                 isAddingText, textInput, textPosition, rafQueue, pointer, track>>
  /\ UNCHANGED uploadVars
  /\ UNCHANGED webVars

\* the raster handleAddText leaves on the drawing canvas (page.tsx 862-863):
\* clearRect, then drawImage(previewCanvas, 0, 0)
TextOnto(canvas, preview, op) == DrawImage(Blank, preview, op)

\* handleAddText (page.tsx 853-869): Enter in the text input, or its button
HandleAddText ==
  /\ TextEntry
  /\ IF textInput # "" /\ HasContext
       THEN /\ drawingCanvas' = TextOnto(drawingCanvas, previewCanvas, ctx.gco)
            /\ textInput' = ""
            /\ isAddingText' = FALSE
            /\ SaveDrawingState(drawingCanvas')
       ELSE UNCHANGED <<drawingCanvas, textInput, isAddingText, history, redoHistory,
                        store, formData, loads, track>>
  /\ UNCHANGED <<loadPc, isLoading, baseCanvas, previewCanvas, ctx, isDrawing,
                 currentMode, currentTool, textPosition, rafQueue, pointer>>
  /\ UNCHANGED uploadVars
  /\ UNCHANGED webVars

\* handleToolChange (page.tsx 827-833), from the toolbar; the effect on
\* currentTool (237-239) hides the text input
HandleToolChange ==
  /\ ToolbarClick
  /\ \E tool \in {"draw", "text", "eraser"} :
       /\ currentTool' = tool
       /\ IF isAddingText
            THEN /\ Room(CloseTask(history))
                 /\ loads' = loads \cup CloseTask(history)
                 /\ textInput' = ""
                 /\ isAddingText' = FALSE
            ELSE UNCHANGED <<loads, textInput, isAddingText>>
  /\ UNCHANGED <<loadPc, isLoading, store, formData, history, redoHistory,
                 baseCanvas, drawingCanvas, previewCanvas, ctx, isDrawing,
                 currentMode, textPosition, rafQueue, pointer, track>>
  /\ UNCHANGED uploadVars
  /\ UNCHANGED webVars

\* Tabs onValueChange (page.tsx 1364-1367): the other mode, draw tool.  The
\* effects on currentMode close the text input (236-239, 836-840) and run
\* the canvas effect (189-234).
HandleModeChange ==
  /\ Mounted /\ pointer.k = "none" /\ ~showSearchDialog
  /\ currentMode' = IF currentMode = "draw" THEN "upload" ELSE "draw"
  /\ currentTool' = "draw"
  /\ LET new == ReloadEffect(formData, history) \cup
                (IF isAddingText THEN CloseTask(history) ELSE {}) IN
     /\ Room(new)
     /\ loads' = loads \cup new
  /\ textInput' = IF isAddingText THEN "" ELSE textInput
  /\ isAddingText' = FALSE
  /\ UNCHANGED <<loadPc, isLoading, store, formData, history, redoHistory,
                 baseCanvas, drawingCanvas, previewCanvas, ctx, isDrawing,
                 textPosition, rafQueue, pointer, track>>
  /\ UNCHANGED uploadVars
  /\ UNCHANGED webVars

\* ------------------------------------------------------------ upload mode
\* The search dialog (GameSearchDialog) is modal: while it is open the page
\* under it takes no clicks.  Its close button: onOpenChange(false)
HandleDialogClose ==
  /\ Mounted /\ showSearchDialog
  /\ showSearchDialog' = FALSE
  /\ UNCHANGED coreVars
  /\ UNCHANGED <<clickedArea, placing, showBlankAreas, hoveredArea, isDragging,
                 downloaded, detect, fit>>
  /\ UNCHANGED webVars

\* what the image load of a placement captures: the area, the image, and
\* formData of the render the handler ran in
PlaceTask(area, img, fd) == [area |-> area, img |-> img, fd |-> fd]

\* handleSelectGame (page.tsx 1035-1109) up to img.src: a search result is
\* chosen in the dialog; a result without image places nothing
HandleSelectGame ==
  /\ Mounted /\ showSearchDialog
  /\ clickedArea # NoArea
  /\ showSearchDialog' = FALSE
  /\ \/ \E img \in Images :
          /\ Len(placing) < MaxPlace
          /\ placing' = Append(placing, PlaceTask(clickedArea, img, formData))
     \/ UNCHANGED placing
  /\ UNCHANGED coreVars
  /\ UNCHANGED <<clickedArea, showBlankAreas, hoveredArea, isDragging, downloaded, detect, fit>>
  /\ UNCHANGED webVars

\* handleFileChange (page.tsx 690-765) up to reader.readAsDataURL, run by the
\* dialog's upload button (1559-1567), which then closes the dialog
HandleFileChange ==
  /\ Mounted /\ showSearchDialog
  /\ clickedArea # NoArea
  /\ showSearchDialog' = FALSE
  /\ \E img \in Images :
       /\ Len(placing) < MaxPlace
       /\ placing' = Append(placing, PlaceTask(clickedArea, img, formData))
  /\ UNCHANGED coreVars
  /\ UNCHANGED <<clickedArea, showBlankAreas, hoveredArea, isDragging, downloaded, detect, fit>>
  /\ UNCHANGED webVars

\* handleDragEnter (page.tsx 879-883)
HandleDragEnter ==
  /\ Mounted /\ pointer.k = "none" /\ ~showSearchDialog
  /\ ~isDragging
  /\ isDragging' = TRUE
  /\ UNCHANGED coreVars
  /\ UNCHANGED <<clickedArea, showSearchDialog, placing, showBlankAreas,
                 hoveredArea, downloaded, detect, fit>>
  /\ UNCHANGED webVars

\* handleDragOver (page.tsx 896-929) at location l
HandleDragOver ==
  /\ Mounted /\ pointer.k = "none" /\ ~showSearchDialog
  /\ isDragging
  /\ \E l \in Locs :
       hoveredArea' = IF formData.hasAreas /\ currentMode = "upload"
                        THEN (IF l \in Areas THEN l ELSE NoArea)
                        ELSE hoveredArea
  /\ UNCHANGED coreVars
  /\ UNCHANGED <<clickedArea, showSearchDialog, placing, showBlankAreas,
                 isDragging, downloaded, detect, fit>>
  /\ UNCHANGED webVars

\* handleDragLeave (page.tsx 885-893)
HandleDragLeave ==
  /\ Mounted /\ pointer.k = "none" /\ ~showSearchDialog
  /\ isDragging
  /\ isDragging' = FALSE
  /\ hoveredArea' = NoArea
  /\ UNCHANGED coreVars
  /\ UNCHANGED <<clickedArea, showSearchDialog, placing, showBlankAreas, downloaded, detect, fit>>
  /\ UNCHANGED webVars

\* handleDrop (page.tsx 931-1032) up to reader.readAsDataURL: an image file
\* is dropped at location l
HandleDrop ==
  /\ Mounted /\ pointer.k = "none" /\ ~showSearchDialog
  /\ isDragging
  /\ isDragging' = FALSE
  /\ hoveredArea' = NoArea
  /\ \E l \in Locs :
       IF formData.hasAreas /\ currentMode = "upload" /\ l \in Areas
         THEN \E img \in Images :
                /\ Len(placing) < MaxPlace
                /\ placing' = Append(placing, PlaceTask(l, img, formData))
         ELSE UNCHANGED placing
  /\ UNCHANGED coreVars
  /\ UNCHANGED <<clickedArea, showSearchDialog, showBlankAreas, downloaded, detect, fit>>
  /\ UNCHANGED webVars

\* ctx.clearRect(area); ctx.drawImage(img, ..., area) on the base canvas
\* (page.tsx 1055-1090): the image covers the area
PlaceImage(dst, area, img) == [dst EXCEPT ![area] = ImgPaint(img)]

\* { ...formData, canvasData: updatedBaseImage } (page.tsx 1097-1102), with
\* the formData the handler captured
PlacedForm(fd, base) == [fd EXCEPT !.canvasData = ToDataURL(base)]

RemoveAt(q, i) == SubSeq(q, 1, i - 1) \o SubSeq(q, i + 1, Len(q))

PlaceLoadedCommitting ==
  /\ Mounted
  /\ \E i \in 1..Len(placing) :
       LET t == placing[i]
           base == PlaceImage(baseCanvas, t.area, t.img)
           updatedForm == PlacedForm(t.fd, base) IN
       /\ baseCanvas' = base
       /\ store' = UpdateForm(updatedForm)
       /\ formData' = updatedForm
       /\ history' = Append(history, ToDataURL(drawingCanvas))
       /\ redoHistory' = <<>>
       /\ Room(ReloadEffect(updatedForm, history'))
       /\ loads' = loads \cup ReloadEffect(updatedForm, history')
       /\ placing' = RemoveAt(placing, i)
  /\ UNCHANGED <<loadPc, isLoading, drawingCanvas,
                 previewCanvas, ctx, isDrawing, currentMode, currentTool,
                 isAddingText, textInput, textPosition, rafQueue, pointer, track>>
  /\ UNCHANGED <<clickedArea, showSearchDialog, showBlankAreas, hoveredArea,
                 isDragging, downloaded, detect, fit>>
  /\ UNCHANGED webVars

\* img.onload of a placement (page.tsx 699-760, 968-1027, 1045-1106): the
\* image is drawn on the base canvas as it is now, and the captured formData
\* with the new canvasData is stored and becomes formData, which runs the
\* canvas effect
PlaceLoaded ==
  /\ Mounted
  /\ \E i \in 1..Len(placing) :
       LET t == placing[i]
           base == PlaceImage(baseCanvas, t.area, t.img)
           updatedForm == PlacedForm(t.fd, base) IN
       /\ baseCanvas' = base
       /\ store' = UpdateForm(updatedForm)
       /\ formData' = updatedForm
       /\ Room(ReloadEffect(updatedForm, history))
       /\ loads' = loads \cup ReloadEffect(updatedForm, history)
       /\ placing' = RemoveAt(placing, i)
  /\ UNCHANGED <<loadPc, isLoading, history, redoHistory, drawingCanvas,
                 previewCanvas, ctx, isDrawing, currentMode, currentTool,
                 isAddingText, textInput, textPosition, rafQueue, pointer, track>>
  /\ UNCHANGED <<clickedArea, showSearchDialog, showBlankAreas, hoveredArea,
                 isDragging, downloaded, detect, fit>>
  /\ UNCHANGED webVars

\* the file or the image of a placement does not decode: no handler is
\* registered for it (no reader.onerror, no img.onerror), nothing runs
PlaceFailed ==
  /\ Mounted
  /\ \E i \in 1..Len(placing) : placing' = RemoveAt(placing, i)
  /\ UNCHANGED coreVars
  /\ UNCHANGED <<clickedArea, showSearchDialog, showBlankAreas, hoveredArea,
                 isDragging, downloaded, detect, fit>>
  /\ UNCHANGED webVars

\* ------------------------------------------------------- save and download
FlattenWithPreview(base, drawing) ==
  DrawImage(DrawImage(DrawImage(Blank, base, "source-over"), drawing, "source-over"),
            previewCanvas, "source-over")

\* the temporary canvas of saveCompleteForm and handleDownload
\* (page.tsx 333-345, 411-423): the base canvas, then the drawing canvas
Flatten(base, drawing) ==
  DrawImage(DrawImage(Blank, base, "source-over"), drawing, "source-over")

\* the buttons of the page header (page.tsx 1342-1356)
HeaderClick == Mounted /\ pointer.k = "none" /\ ~showSearchDialog

\* saveCompleteForm (page.tsx 330-364); the changed formData runs the canvas
\* effect
SaveCompleteForm ==
  /\ HeaderClick
  /\ LET combinedDataUrl == ToDataURL(Flatten(baseCanvas, drawingCanvas))
         updatedForm == [formData EXCEPT !.canvasData = combinedDataUrl,
                                         !.drawingData = ToDataURL(drawingCanvas)] IN
     /\ store' = UpdateForm(updatedForm)
     /\ formData' = updatedForm
     /\ Room(ReloadEffect(updatedForm, history))
     /\ loads' = loads \cup ReloadEffect(updatedForm, history)
  /\ UNCHANGED <<loadPc, isLoading, history, redoHistory, baseCanvas, drawingCanvas,
                 previewCanvas, ctx, isDrawing, currentMode, currentTool,
                 isAddingText, textInput, textPosition, rafQueue, pointer, track>>
  /\ UNCHANGED uploadVars
  /\ UNCHANGED webVars

\* handleDownload (page.tsx 408-435)
HandleDownload ==
  /\ HeaderClick
  /\ downloaded' = ToDataURL(Flatten(baseCanvas, drawingCanvas))
  /\ UNCHANGED coreVars
  /\ UNCHANGED <<clickedArea, showSearchDialog, placing, showBlankAreas,
                 hoveredArea, isDragging, detect, fit>>
  /\ UNCHANGED webVars

\* the switch of the upload tab (page.tsx 1388): setShowBlankAreas; the
\* canvas effect depends on showBlankAreas and runs
HandleShowBlankAreas ==
  /\ Mounted /\ pointer.k = "none" /\ ~showSearchDialog
  /\ currentMode = "upload"
  /\ showBlankAreas' = ~showBlankAreas
  /\ Room(ReloadEffect(formData, history))
  /\ loads' = loads \cup ReloadEffect(formData, history)
  /\ UNCHANGED <<loadPc, isLoading, store, formData, history, redoHistory,
                 baseCanvas, drawingCanvas, previewCanvas, ctx, isDrawing,
                 currentMode, currentTool, isAddingText, textInput, textPosition,
                 rafQueue, pointer, track>>
  /\ UNCHANGED <<clickedArea, showSearchDialog, placing, hoveredArea, isDragging,
                 downloaded, detect, fit>>
  /\ UNCHANGED webVars

\* ------------------------------------------------------------- detection
\* a detector still to resolve
Pending(call) == detect.call = call /\ detect.by = "none"

\* img.onload of detectBlankAreas(imageData, highTolerance)
\* (src/lib/image-analysis.ts 14-183); without a context it resolves with
\* no areas (21-24)
DetectBlankAreas ==
  /\ Pending("grid")
  /\ detect.input \in {"image", "nocontext"}
  /\ IF detect.input = "image"
       THEN LET blankAreas == GridBlankAreas(detect.image, detect.highTolerance) IN
            detect' = [detect EXCEPT
                         !.by = "grid",
                         !.accepted = blankAreas,
                         !.areas = GridFilteredAreas(detect.image, blankAreas,
                                                     detect.highTolerance)]
       ELSE detect' = [detect EXCEPT !.by = "grid"]
  /\ UNCHANGED coreVars
  /\ UNCHANGED <<clickedArea, showSearchDialog, placing, showBlankAreas,
                 hoveredArea, isDragging, downloaded, fit>>
  /\ UNCHANGED webVars

\* img.onload of detectBlankAreas(imageData) (page.tsx 1636-1822); without
\* a context it resolves with no areas (1644-1647)
DetectBlankAreasFloodFill ==
  /\ Pending("flood")
  /\ detect.input \in {"image", "nocontext"}
  /\ IF detect.input = "image"
       THEN LET blankAreas == ComponentAreas(detect.image) IN
            detect' = [detect EXCEPT
                         !.by = "flood",
                         !.accepted = blankAreas,
                         !.areas = FloodMergedAreas(blankAreas)]
       ELSE detect' = [detect EXCEPT !.by = "flood"]
  /\ UNCHANGED coreVars
  /\ UNCHANGED <<clickedArea, showSearchDialog, placing, showBlankAreas,
                 hoveredArea, isDragging, downloaded, fit>>
  /\ UNCHANGED webVars

\* img.onerror (page.tsx 1824-1827) resolves with no areas.  An image
\* without pixels either fails to load like an undecodable one, or loads
\* (see DetectEmptyRaster).  src/lib/image-analysis.ts sets no img.onerror:
\* nothing runs when its image fails to load.
DetectImageError ==
  /\ Pending("flood")
  /\ detect.input \in {"undecodable", "empty"}
  /\ detect' = [detect EXCEPT !.by = "flood"]
  /\ UNCHANGED coreVars
  /\ UNCHANGED <<clickedArea, showSearchDialog, placing, showBlankAreas,
                 hoveredArea, isDragging, downloaded, fit>>
  /\ UNCHANGED webVars

\* img.onload for an image of width or height 0: the canvas has no pixels
\* and ctx.getImageData(0, 0, 0, 0) (image-analysis.ts 30, page.tsx 1650)
\* throws IndexSizeError; the handler ends there and resolve is not called
DetectEmptyRaster ==
  /\ detect.by = "none"
  /\ detect.input = "empty"
  /\ detect' = [detect EXCEPT !.by = "threw"]
  /\ UNCHANGED coreVars
  /\ UNCHANGED <<clickedArea, showSearchDialog, placing, showBlankAreas,
                 hoveredArea, isDragging, downloaded, fit>>
  /\ UNCHANGED webVars

\* the detector of page.tsx run one loop iteration at a time
Stepping(pc) == Pending("flood") /\ detect.input = "image" /\ detect.run.pc = pc

detectFrame == <<clickedArea, showSearchDialog, placing, showBlankAreas,
                 hoveredArea, isDragging, downloaded, fit>>

\* an iteration of the loop over the pixels (page.tsx 1665-1770) outside
\* the while loop; after the last one blankAreas is made (1776-1781)
FloodScanStep ==
  /\ Stepping("scan")
  /\ LET n == ImageWidth(detect.image) * ImageHeight(detect.image)
         r == IF detect.run.marks = <<>> THEN FirstStep(n) ELSE detect.run IN
     detect' = [detect EXCEPT !.run =
                  IF r.index < n THEN ScanPixel(detect.image, r)
                  ELSE [r EXCEPT !.pc = "merge", !.blankAreas = r.components]]
  /\ UNCHANGED coreVars
  /\ UNCHANGED detectFrame
  /\ UNCHANGED webVars

\* an iteration of while (queue.length > 0) (1689-1730)
FloodFillStep ==
  /\ Stepping("fill")
  /\ detect' = [detect EXCEPT !.run = FillPixel(detect.image, @)]
  /\ UNCHANGED coreVars
  /\ UNCHANGED detectFrame
  /\ UNCHANGED webVars

\* an iteration of while (merged) (1786-1819); after the one that merges
\* nothing, resolve(blankAreas)
FloodMergeStep ==
  /\ Stepping("merge")
  /\ IF OverlappingPairs(detect.run.blankAreas) # {}
       THEN detect' = [detect EXCEPT !.run = MergePair(@)]
       ELSE detect' = [detect EXCEPT
                         !.by = "flood",
                         !.accepted = detect.run.components,
                         !.areas = [k \in 1..Len(detect.run.blankAreas) |->
                                      InHalves(detect.run.blankAreas[k])],
                         !.run.pc = "done"]
  /\ UNCHANGED coreVars
  /\ UNCHANGED detectFrame
  /\ UNCHANGED webVars

\* ------------------------------------------------------------- placement
\* the drawImage call of img.onload in handleFileChange (page.tsx 711-744)
\* and in handleSelectGame (1057-1090)
DrawPlacedImage ==
  /\ ~fit.drawn
  /\ LET call == AdaptiveFit(fit.img, fit.area, fit.adaptiveUpload) IN
     fit' = [fit EXCEPT !.drawn = TRUE, !.s = call.s, !.d = call.d]
  /\ UNCHANGED coreVars
  /\ UNCHANGED <<clickedArea, showSearchDialog, placing, showBlankAreas,
                 hoveredArea, isDragging, downloaded, detect>>
  /\ UNCHANGED webVars

\* ---------------------------------------------- the search dialog: handlers
\* searches a dialog may start
MaxSearches == 2
\* chunks a search may read
MaxReads == 1

pageVars == <<coreVars, uploadVars>>

dialogFrame == <<pageVars, route, retrying, proxy>>

Searches == 1..Len(dialog.searches)

\* the dialog is shown and takes input
Shown == dialog.mounted /\ dialog.isOpen

\* the updates of a handler or of a continuation are rendered at once, and
\* the effect of part_002 103-118 follows
Render(new) == dialog' = OpenEffect(dialog, new)

\* the parent sets the isOpen prop (page.tsx 1556-1557)
DialogOpen ==
  /\ dialog.mounted /\ ~dialog.isOpen
  /\ Render([dialog EXCEPT !.isOpen = TRUE])
  /\ UNCHANGED dialogFrame

DialogClose ==
  /\ Shown
  /\ Render([dialog EXCEPT !.isOpen = FALSE])
  /\ UNCHANGED dialogFrame

\* the cleanup of the effect of part_002 494-502
DialogUnmount ==
  /\ dialog.mounted
  /\ dialog' = [AbortCurrent(dialog) EXCEPT !.mounted = FALSE]
  /\ UNCHANGED dialogFrame

\* onChange of the input (part_002 584), disabled while isLoading
HandleSearchTermChange ==
  /\ Shown /\ ~dialog.isLoading
  /\ \E term \in {"", "a"} :
       /\ term # dialog.searchTerm
       /\ Render([dialog EXCEPT !.searchTerm = term])
  /\ UNCHANGED dialogFrame

\* handleClearSearch (part_002 121-138); its button is shown with a term
HandleClearSearch ==
  /\ Shown /\ dialog.searchTerm # ""
  /\ Render([AbortCurrent(dialog) EXCEPT
               !.isLoading = FALSE, !.searchTerm = "",
               !.searchResults = {}, !.totalResults = 0,
               !.searchStatus = IdlePrompt, !.lastSearchTerm = ""])
  /\ UNCHANGED dialogFrame

\* handleSearchTypeChange, handleSearchModeChange, handleCharacterTypeChange
\* (part_002 141-168)
HandleSearchTypeChange ==
  /\ Shown
  /\ Render([dialog EXCEPT !.searchResults = {}, !.totalResults = 0,
                           !.searchStatus = IdlePrompt])
  /\ UNCHANGED dialogFrame

\* searchGames(retry) up to await fetch (part_002 171-230): by the search
\* button (601) or the Enter key (414), both without effect while
\* isLoading, or by the retry button shown with an error (470)
SearchGames ==
  /\ Shown /\ ~dialog.isLoading
  /\ Len(dialog.searches) < MaxSearches
  /\ \E retry \in BOOLEAN :
       /\ retry => dialog.searchStatus.state = "error"
       /\ LET term == IF retry THEN dialog.lastSearchTerm ELSE dialog.searchTerm
              aborted == AbortCurrent(dialog)
              n == Len(dialog.searches) + 1 IN
          IF term = ""
            THEN Render([dialog EXCEPT !.searchStatus = Status("idle", "enter a name")])
            ELSE Render([aborted EXCEPT
                   !.searches = Append(@, NewSearch(dialog.isLoading)),
                   !.abortControllerRef = n,
                   !.isLoading = TRUE,
                   !.searchResults = IF retry THEN @ ELSE {},
                   !.totalResults = IF retry THEN @ ELSE 0,
                   !.searchStatus = Status("searching", "searching"),
                   !.lastSearchTerm = term])
  /\ UNCHANGED dialogFrame

\* the timeout of part_002 207-214
SearchTimer ==
  /\ \E s \in Searches :
       /\ dialog.searches[s].timer = "armed"
       /\ Render([(IF /\ dialog.searches[s].isLoading
                      /\ IsCurrent(s, dialog.abortControllerRef)
                     THEN [dialog EXCEPT !.searchStatus = Status("searching", "searching")]
                     ELSE dialog)
                  EXCEPT !.searches[s].timer = "off"])
  /\ UNCHANGED dialogFrame

\* await fetch resolves (part_002 227-284): with a response that is ok and
\* has a body, or with another; the stream timeout is set and the loop
\* reaches its first read
FetchResolved ==
  /\ \E s \in Searches, ok \in BOOLEAN :
       /\ dialog.searches[s].pc = "fetch" /\ ~dialog.searches[s].aborted
       /\ Render(IF ~IsCurrent(s, dialog.abortControllerRef) THEN Finally(dialog, s)
                 ELSE IF ~ok THEN Finally(Catch(dialog, s, "Error"), s)
                 ELSE [dialog EXCEPT !.searches[s].streamTimer = "armed",
                                     !.searches[s].pc = "read"])
  /\ UNCHANGED dialogFrame

\* await fetch rejects: with AbortError once aborted, or the network failed
FetchRejected ==
  /\ \E s \in Searches :
       /\ dialog.searches[s].pc = "fetch"
       /\ Render(Finally(Catch(dialog, s, IF dialog.searches[s].aborted
                                            THEN "AbortError" ELSE "TypeError"), s))
  /\ UNCHANGED dialogFrame

\* await reader.read() resolves with a chunk (part_002 287-363), and the
\* loop comes to its next read (278-284)
ReadChunk ==
  /\ \E s \in Searches, chunk \in Chunks :
       /\ dialog.searches[s].pc = "read" /\ ~dialog.searches[s].aborted
       /\ dialog.searches[s].reads < MaxReads
       /\ LET read == OnLines([dialog EXCEPT !.searches[s].reads = @ + 1], s, chunk, 1) IN
          Render(IF IsCurrent(s, read.abortControllerRef) THEN read
                 ELSE Finally([read EXCEPT !.searches[s].streamTimer = "off"], s))
  /\ UNCHANGED dialogFrame

\* await reader.read() resolves with done (part_002 287-288, 370-378)
ReadDone ==
  /\ \E s \in Searches :
       /\ dialog.searches[s].pc = "read" /\ ~dialog.searches[s].aborted
       /\ Render(Finally(AfterStream(dialog, s), s))
  /\ UNCHANGED dialogFrame

\* await reader.read() rejects (part_002 364-367): with AbortError once
\* aborted, or the connection broke
ReadFailed ==
  /\ \E s \in Searches :
       /\ dialog.searches[s].pc = "read"
       /\ Render(Finally(Catch(dialog, s, IF dialog.searches[s].aborted
                                            THEN "AbortError" ELSE "TypeError"), s))
  /\ UNCHANGED dialogFrame

\* the timeout of part_002 259-275; reader.cancel() resolves the pending
\* read with done, and searchGames goes on from it (287-288, 370-378, 400)
\* before anything else runs
StreamTimeout ==
  /\ \E s \in Searches :
       /\ dialog.searches[s].streamTimer = "armed"
       /\ IF ~dialog.searches[s].reachEnd /\ IsCurrent(s, dialog.abortControllerRef)
            THEN LET timedOut == [dialog EXCEPT
                                    !.searches[s].streamTimer = "off",
                                    !.searches[s].reported = TRUE,
                                    !.searchStatus = Status("error", "timeout"),
                                    !.isLoading = FALSE,
                                    !.abortControllerRef = NoController] IN
                 Render(IF dialog.searches[s].pc = "read"
                          THEN Finally(AfterStream(timedOut, s), s)
                          ELSE timedOut)
            ELSE Render([dialog EXCEPT !.searches[s].streamTimer = "off"])
  /\ UNCHANGED dialogFrame

\* ------------------------------------------------- the bangumi-search route
routeFrame == <<pageVars, dialog, retrying, proxy>>

\* GET up to the Response (route.ts 51-68, 396-414): without a query it
\* answers 400, else doSearch is started and the stream returned
RouteGet ==
  /\ route.pc = "idle"
  /\ \E req \in Requests :
       route' = IF req.query = ""
                  THEN [route EXCEPT !.request = req, !.status = 400, !.pc = "done"]
                  ELSE [route EXCEPT !.request = req, !.status = 200,
                                     !.writer = "open", !.pc = "start"]
  /\ UNCHANGED routeFrame

\* await sendInitMessage() (route.ts 216); the preheating in the background
\* (232-242) writes nothing
RouteInit ==
  /\ route.pc = "start"
  /\ route' = Goes(WriterWrite(route, Chunk("init", "")),
                   IF IsPreheating(route.request) THEN "preheat" ELSE "fetch")
  /\ UNCHANGED routeFrame

\* a preheating request (route.ts 219-230): executeBangumiApiPreheating
\* resolves with true or false
RoutePreheat ==
  /\ route.pc = "preheat"
  /\ \E success \in BOOLEAN :
       route' = Goes(SendEndMessage(route, IF success THEN "preheated"
                                                       ELSE "not preheated"), "done")
  /\ UNCHANGED routeFrame

\* await fetchWithRetry, response.ok, await response.json() and the 'init'
\* with the total (route.ts 267-302, 344-350)
RouteFetch ==
  /\ route.pc = "fetch"
  /\ \E up \in Upstream :
       route' =
         IF up.kind \in {"throws", "not ok", "not json"}
           THEN [route EXCEPT !.pc = "catch"]
         ELSE IF up.kind = "no list"
           THEN Goes(SendEndMessage(route, NoneFound(route.request)), "done")
         ELSE Goes([WriterWrite(route, Chunk("init", "total"))
                      EXCEPT !.items = up.items, !.empty = up.items = <<>>],
                   "items")
  /\ UNCHANGED routeFrame

\* an iteration of for (const item of ...) (route.ts 305-332, 353-363); a
\* null entry throws at item.id
RouteItem ==
  /\ route.pc = "items" /\ route.items # <<>>
  /\ route' = IF Head(route.items) = "null"
                THEN [route EXCEPT !.pc = "catch"]
                ELSE Goes(SendGameData([route EXCEPT !.items = Tail(@)],
                                       Head(route.items)), "items")
  /\ UNCHANGED routeFrame

\* after the loop (route.ts 334-338, 365-369)
RouteEnd ==
  /\ route.pc = "items" /\ route.items = <<>>
  /\ route' = Goes(SendEndMessage(route, IF route.empty
                                           THEN NoneFound(route.request) ELSE ""),
                   "done")
  /\ UNCHANGED routeFrame

\* the catch block of doSearch (route.ts 374-393), and when it throws the
\* handler of doSearch().catch (397-405)
RouteCatch ==
  /\ route.pc = "catch"
  /\ LET caught == SendEndMessage(WriterWrite(route, Chunk("error", "friendly")), "")
         handled == WriterClose(WriterWrite([caught EXCEPT !.threw = FALSE],
                                            Chunk("error", "internal"))) IN
     route' = IF caught.threw THEN [handled EXCEPT !.threw = FALSE, !.pc = "done"]
              ELSE [caught EXCEPT !.pc = "done"]
  /\ UNCHANGED routeFrame

\* the client stops reading the response: the stream is cancelled and the
\* writer errored
ClientCancel ==
  /\ route.writer = "open"
  /\ route' = [route EXCEPT !.writer = "errored"]
  /\ UNCHANGED routeFrame

\* -------------------------------------------------------- fetchWithRetry
retryFrame == <<pageVars, dialog, route, proxy>>

\* a call fetchWithRetry(url, options, retries, delay) (route.ts 19-27)
FetchWithRetry ==
  /\ retrying.pc = "idle"
  /\ \E retries \in 0..MaxRetries, delay \in Delays :
       retrying' = [retrying EXCEPT !.pc = "attempt", !.retries = retries,
                              !.first = Ms(delay), !.delay = Ms(delay)]
  /\ UNCHANGED retryFrame

\* return await fetch(url, options) and its catch block up to the wait
\* (route.ts 28-35); after the last attempt the loop ends and lastError is
\* thrown (43)
RetryAttempt ==
  /\ retrying.pc = "attempt"
  /\ \E o \in Outcomes :
       LET tried == [retrying EXCEPT !.attempts = Append(@, o)]
           error == <<retrying.i, o.error>> IN
       retrying' =
         IF ~o.threw
           THEN [tried EXCEPT !.pc = "returned", !.result = <<retrying.i, o.status>>]
         ELSE IF retrying.i < retrying.retries
           THEN [tried EXCEPT !.pc = "wait", !.lastError = error]
         ELSE IF LoopAgain(retrying.i + 1, retrying.retries)
           THEN [tried EXCEPT !.pc = "attempt", !.lastError = error, !.i = @ + 1]
         ELSE [tried EXCEPT !.pc = "threw", !.lastError = error, !.i = @ + 1,
                            !.thrown = error]
  /\ UNCHANGED retryFrame

\* the timer of the wait fires: delay *= 1.5, i++ and the loop's test
\* (route.ts 36-38, 27)
RetryWait ==
  /\ retrying.pc = "wait"
  /\ LET waited == [retrying EXCEPT !.waits = Append(@, retrying.delay),
                                 !.delay = TimesOneAndAHalf(@), !.i = @ + 1] IN
     retrying' = IF LoopAgain(waited.i, waited.retries)
                THEN [waited EXCEPT !.pc = "attempt"]
                ELSE [waited EXCEPT !.pc = "threw", !.thrown = waited.lastError]
  /\ UNCHANGED retryFrame

\* ---------------------------------------------------------- the image proxy
proxyFrame == <<pageVars, dialog, route, retrying>>

\* GET up to the fetch (image-proxy/route.ts 25-68)
ProxyGet ==
  /\ proxy.pc = "idle"
  /\ \E param \in UrlParams :
       proxy' =
         IF param = NoUrl \/ param = <<EmptyText>>
           THEN [proxy EXCEPT !.param = param, !.status = 400, !.pc = "done"]
         ELSE IF ~IsValidImageUrl(param[1])
           THEN [proxy EXCEPT !.param = param, !.status = 400, !.pc = "done"]
         ELSE [proxy EXCEPT !.param = param, !.fetched = {param[1]}, !.pc = "fetch"]
  /\ UNCHANGED proxyFrame

\* the fetch settles or the 15 s timer aborts it (route.ts 56, 70-145)
ProxyFetched ==
  /\ proxy.pc = "fetch"
  /\ \E o \in ImageOutcomes :
       proxy' = [proxy EXCEPT !.pc = "done",
                   !.status = CASE o = "ok" -> 200
                                [] o = "404" -> 200
                                [] o = "403" -> 403
                                [] o = "AbortError" -> 408
                                [] OTHER -> 500]
  /\ UNCHANGED proxyFrame

\* ---------------------------------------------------------- specifications
\* every handler and callback of the editor
Next ==
  \/ LoadEnsureDB \/ LoadGetForm \/ LoadCreateEmpty \/ LoadDetect
  \/ BaseLoaded \/ DrawingLoaded
  \/ HandleUndo \/ HandleRedo
  \/ HandleMouseDown \/ HandleMouseMove \/ HandleMouseUp \/ HandleMouseLeave
  \/ HandleTouchStart \/ HandleTouchMove \/ HandleTouchEnd \/ HandleTouchCancel
  \/ TapMouseDown \/ TapMouseUp
  \/ HandleTextInputChange \/ UpdatePreview \/ PreviewLoaded
  \/ HandleCloseTextInput \/ CloseLoaded \/ HandleAddText
  \/ HandleToolChange \/ HandleModeChange
  \/ HandleDialogClose \/ HandleSelectGame \/ HandleFileChange
  \/ HandleDragEnter \/ HandleDragOver \/ HandleDragLeave \/ HandleDrop
  \/ PlaceLoaded \/ PlaceFailed
  \/ SaveCompleteForm \/ HandleDownload \/ HandleShowBlankAreas
  \/ DetectBlankAreas \/ DetectBlankAreasFloodFill
  \/ DetectImageError \/ DetectEmptyRaster
  \/ FloodScanStep \/ FloodFillStep \/ FloodMergeStep
  \/ DrawPlacedImage
  \/ DialogOpen \/ DialogClose \/ DialogUnmount
  \/ HandleSearchTermChange \/ HandleClearSearch \/ HandleSearchTypeChange
  \/ SearchGames \/ SearchTimer
  \/ FetchResolved \/ FetchRejected
  \/ ReadChunk \/ ReadDone \/ ReadFailed \/ StreamTimeout
  \/ RouteGet \/ RouteInit \/ RoutePreheat \/ RouteFetch
  \/ RouteItem \/ RouteEnd \/ RouteCatch \/ ClientCancel
  \/ FetchWithRetry \/ RetryAttempt \/ RetryWait
  \/ ProxyGet \/ ProxyFetched

Spec == Init /\ [][Next]_vars

\* the editor used for drawing: strokes by mouse and touch, undo and redo,
\* tool and mode changes; nothing is typed into the text input
NextDraw ==
  \/ LoadEnsureDB \/ LoadGetForm \/ LoadCreateEmpty \/ LoadDetect
  \/ BaseLoaded \/ DrawingLoaded
  \/ HandleUndo \/ HandleRedo
  \/ HandleMouseDown \/ HandleMouseMove \/ HandleMouseUp \/ HandleMouseLeave
  \/ HandleTouchStart \/ HandleTouchMove \/ HandleTouchEnd \/ HandleTouchCancel
  \/ TapMouseDown \/ TapMouseUp
  \/ HandleToolChange \/ HandleModeChange
  \/ HandleDialogClose

SpecDraw == Init /\ [][NextDraw]_vars

\* the editor used for text: the canvas is clicked with the mouse, text is
\* typed, added or abandoned, tools and modes change
NextText ==
  \/ LoadEnsureDB \/ LoadGetForm \/ LoadCreateEmpty \/ LoadDetect
  \/ BaseLoaded \/ DrawingLoaded
  \/ HandleMouseDown \/ HandleMouseUp
  \/ HandleTextInputChange \/ UpdatePreview \/ PreviewLoaded
  \/ HandleCloseTextInput \/ CloseLoaded \/ HandleAddText
  \/ HandleToolChange \/ HandleModeChange
  \/ HandleDialogClose

SpecText == Init /\ [][NextText]_vars

\* the editor used for filling blank areas: images are chosen in the dialog
\* or dropped and decode sooner or later, while strokes are drawn with the
\* mouse in draw mode
NextPlace ==
  \/ LoadEnsureDB \/ LoadGetForm \/ LoadCreateEmpty \/ LoadDetect
  \/ BaseLoaded \/ DrawingLoaded
  \/ HandleMouseDown \/ HandleMouseMove \/ HandleMouseUp
  \/ HandleModeChange
  \/ HandleDialogClose \/ HandleSelectGame \/ HandleFileChange
  \/ HandleDragEnter \/ HandleDrop
  \/ PlaceLoaded \/ PlaceFailed

SpecPlace == Init /\ [][NextPlace]_vars

\* blank areas are filled between commits, undos and redos; the mouse is
\* pressed and released without moving
NextPlaceUndo ==
  \/ LoadEnsureDB \/ LoadGetForm \/ LoadCreateEmpty \/ LoadDetect
  \/ BaseLoaded \/ DrawingLoaded
  \/ HandleUndo \/ HandleRedo
  \/ HandleMouseDown \/ HandleMouseUp
  \/ HandleModeChange
  \/ HandleDialogClose \/ HandleSelectGame \/ HandleFileChange
  \/ HandleDragEnter \/ HandleDrop
  \/ PlaceLoaded \/ PlaceFailed

SpecPlaceUndo == Init /\ [][NextPlaceUndo]_vars

\* the editor used with all three tools and the mouse: strokes, erasures and
\* texts are drawn and committed
NextEdit ==
  \/ LoadEnsureDB \/ LoadGetForm \/ LoadCreateEmpty \/ LoadDetect
  \/ BaseLoaded \/ DrawingLoaded
  \/ HandleMouseDown \/ HandleMouseMove \/ HandleMouseUp
  \/ HandleTextInputChange \/ UpdatePreview \/ PreviewLoaded
  \/ HandleAddText
  \/ HandleToolChange \/ HandleModeChange \/ HandleDialogClose

SpecEdit == Init /\ [][NextEdit]_vars

\* saving and downloading a form drawn on earlier, with a text preview shown,
\* a file dragged over the areas and the area highlight switched
NextSave ==
  \/ LoadEnsureDB \/ LoadGetForm \/ LoadDetect
  \/ BaseLoaded \/ DrawingLoaded
  \/ HandleMouseDown \/ HandleMouseUp
  \/ HandleTextInputChange \/ UpdatePreview \/ PreviewLoaded
  \/ HandleToolChange \/ HandleModeChange \/ HandleDialogClose
  \/ HandleDragEnter \/ HandleDragOver \/ HandleDragLeave
  \/ HandleShowBlankAreas
  \/ SaveCompleteForm \/ HandleDownload

SpecSave == InitSaved /\ [][NextSave]_vars

\* the two detectors run on an image
NextDetect ==
  \/ DetectBlankAreas \/ DetectBlankAreasFloodFill
  \/ DetectImageError \/ DetectEmptyRaster

SpecDetect == InitDetect /\ [][NextDetect]_vars

SpecShapes == InitShapes /\ [][NextDetect]_vars

\* strokes drawn with the mouse, undone and redone while the image loads of
\* the canvas effect complete in any order
NextRace ==
  \/ LoadEnsureDB \/ LoadGetForm \/ LoadDetect
  \/ BaseLoaded \/ DrawingLoaded
  \/ HandleUndo \/ HandleRedo
  \/ HandleMouseDown \/ HandleMouseMove \/ HandleMouseUp
  \/ HandleModeChange

SpecRace == InitRace /\ [][NextRace]_vars

\* the geometry of a placement
NextFit == DrawPlacedImage

SpecFit == InitFit /\ [][NextFit]_vars

\* the browser delivers the load or the error event of the image
SpecCalls == InitCalls /\ [][NextDetect]_vars /\ WF_vars(NextDetect)

\* the detector of page.tsx runs its loops; the handler, once started, runs
\* to its end
NextFlood == FloodScanStep \/ FloodFillStep \/ FloodMergeStep

SpecFlood == InitFlood /\ [][NextFlood]_vars /\ WF_vars(NextFlood)

\* the search dialog
NextDialog ==
  \/ DialogOpen \/ DialogClose \/ DialogUnmount
  \/ HandleSearchTermChange \/ HandleClearSearch \/ HandleSearchTypeChange
  \/ SearchGames \/ SearchTimer
  \/ FetchResolved \/ FetchRejected
  \/ ReadChunk \/ ReadDone \/ ReadFailed \/ StreamTimeout

\* a response, an error or the end of a stream comes in the end, and a
\* timeout that is set fires
SearchSteps ==
  \/ SearchTimer \/ FetchResolved \/ FetchRejected
  \/ ReadChunk \/ ReadDone \/ ReadFailed \/ StreamTimeout

SpecDialog == Init /\ [][NextDialog]_vars

\* the dialog is opened and closed, a term is typed, searched and cleared
NextSearch ==
  \/ DialogOpen \/ DialogClose
  \/ HandleSearchTermChange \/ HandleClearSearch
  \/ SearchGames \/ SearchTimer
  \/ FetchResolved \/ FetchRejected
  \/ ReadChunk \/ ReadDone \/ ReadFailed \/ StreamTimeout

SpecSearch == Init /\ [][NextSearch]_vars /\ WF_vars(SearchSteps)

\* the page is opened and its form loaded; once shown, tools and modes are
\* changed and the mouse is pressed and released.  Each await of loadForm
\* that can settle does settle.
LoadSteps == LoadEnsureDB \/ LoadGetForm \/ LoadCreateEmpty \/ LoadDetect

NextLoad ==
  \/ LoadEnsureDB \/ LoadGetForm \/ LoadCreateEmpty \/ LoadDetect
  \/ BaseLoaded \/ DrawingLoaded
  \/ HandleMouseDown \/ HandleMouseUp
  \/ HandleToolChange \/ HandleModeChange \/ HandleDialogClose

SpecLoad == Init /\ [][NextLoad]_vars /\ WF_vars(LoadSteps)

\* a request to the bangumi-search route
NextRoute ==
  \/ RouteGet \/ RouteInit \/ RoutePreheat \/ RouteFetch
  \/ RouteItem \/ RouteEnd \/ RouteCatch \/ ClientCancel

SpecRoute == Init /\ [][NextRoute]_vars

\* a call of fetchWithRetry
NextRetry == FetchWithRetry \/ RetryAttempt \/ RetryWait

SpecRetry == Init /\ [][NextRetry]_vars

\* a request to the image proxy
NextProxy == ProxyGet \/ ProxyFetched

SpecProxy == Init /\ [][NextProxy]_vars

\* the editor on a browser that gives the drawing canvas no 2D context: the
\* canvas effect loads nothing
NextNoContext ==
  \/ LoadEnsureDB \/ LoadGetForm \/ LoadCreateEmpty \/ LoadDetect
  \/ HandleUndo \/ HandleRedo
  \/ HandleMouseDown \/ HandleMouseMove \/ HandleMouseUp \/ HandleMouseLeave
  \/ HandleTextInputChange \/ UpdatePreview \/ PreviewLoaded
  \/ HandleAddText
  \/ HandleToolChange \/ HandleModeChange \/ HandleDialogClose

SpecNoContext == InitNoContext /\ [][NextNoContext]_vars

\* ------------------------------------------------------------------ claims

\* C1: a commit (a stroke ended by any of its four end events or by the
\* tap's mouseup, or a text placement) appends exactly one entry, the
\* snapshot of the drawing canvas, on top of history, leaves the earlier
\* entries as they were and in order, and leaves redoHistory empty.
C1_CommitAppendsOneSnapshot ==
  [][((StrokeOpen /\ (HandleMouseUp \/ HandleMouseLeave \/ HandleTouchEnd
                        \/ HandleTouchCancel \/ TapMouseUp))
       \/ (textInput # "" /\ HandleAddText))
     => /\ Len(history') = Len(history) + 1
        /\ Front(history') = history
        /\ Last(history') = ToDataURL(drawingCanvas')
        /\ redoHistory' = <<>>]_vars

\* a commit has just discarded a redo branch and history holds three entries
C1_Witness ==
  /\ Mounted /\ track.afterCommit /\ track.dropped > 0
  /\ Len(history) = 3 /\ redoHistory = <<>>

\* C2: undo with more than one entry in history moves the top entry of
\* history to the head of redoHistory and changes no other entry of either;
\* with exactly one entry it changes neither stack nor the stored record.
C2_UndoMovesTop ==
  [][HandleUndo =>
       IF Len(history) > 1
         THEN /\ history' = Front(history)
              /\ redoHistory' = <<Last(history)>> \o redoHistory
         ELSE /\ history' = history
              /\ redoHistory' = redoHistory
              /\ store' = store]_vars

\* two undos in a row have been done: redoHistory holds two entries
C2_Witness ==
  /\ Mounted /\ track.u = 2 /\ track.r = 0
  /\ Len(history) = 1 /\ Len(redoHistory) = 2

\* C3: redo with a non-empty redoHistory moves its head on top of history
\* and changes no other entry of either; with an empty redoHistory it
\* changes neither stack nor the stored record.
C3_RedoMovesHead ==
  [][HandleRedo =>
       IF Len(redoHistory) > 0
         THEN /\ history' = Append(history, Head(redoHistory))
              /\ redoHistory' = Tail(redoHistory)
         ELSE /\ history' = history
              /\ redoHistory' = redoHistory
              /\ store' = store]_vars

\* a redo has been done with another entry still to redo
C3_Witness ==
  /\ Mounted /\ track.u = 2 /\ track.r = 1
  /\ Len(history) = 2 /\ Len(redoHistory) = 1

\* C4: in every state in which the editor is shown (loadForm has put the
\* first snapshot in history and ended the loading screen), history holds at
\* least one entry: no sequence of commits, undos and redos empties it.
C4_HistoryNeverEmpty == Mounted => Len(history) >= 1

\* everything has been undone: one entry is left and two can be redone
C4_Witness ==
  /\ Mounted /\ Len(history) = 1 /\ Len(redoHistory) = 2 /\ track.u = 2

\* C5: after N commits followed by N undos from a history holding the single
\* entry s0, history is again the single entry s0, which is also the stored
\* drawing of the form.
C5_UndoAllCommits ==
  (Mounted /\ track.pure /\ track.commits >= 1 /\ track.undos = track.commits)
    => (history = <<track.s0>> /\ store.drawingData = track.s0)

\* two commits of strokes that drew something, then two undos
C5_Witness ==
  /\ Mounted /\ track.pure /\ track.commits = 2 /\ track.undos = 2
  /\ \E i \in 1..Len(redoHistory) : redoHistory[i] # track.s0

\* C6: from a commit until the next undo redoHistory is empty, a redo
\* changes neither stack nor the stored record, and history changes only by
\* further commits on top of it: the branch the commit discarded is gone.
C6_CommitDiscardsRedo ==
  /\ [](track.afterCommit => redoHistory = <<>>)
  /\ [][(track.afterCommit /\ HandleRedo)
          => (history' = history /\ redoHistory' = redoHistory /\ store' = store)]_vars
  /\ [][(track.afterCommit /\ track'.afterCommit)
          => (history' = history \/ Front(history') = history)]_vars

\* an undo, then a commit that discarded the undone entry
C6_Witness ==
  /\ Mounted /\ track.afterCommit /\ track.dropped = 1
  /\ Len(history) = 2 /\ ~track.pure

\* C7: k undos followed by k redos, with nothing else between them that
\* touches the stacks, leave history, redoHistory and the stored drawing as
\* they were before the first of the undos.
C7_UndoRedoIdentity ==
  (Mounted /\ track.u >= 1 /\ track.r = track.u)
    => /\ history = track.base
       /\ redoHistory = track.baseRedo
       /\ store.drawingData = Last(track.base)

\* two undos then two redos over a history of three entries
C7_Witness ==
  /\ Mounted /\ track.u = 2 /\ track.r = 2 /\ Len(history) = 3

\* C8: a gesture that began a stroke has made exactly one commit when it is
\* over, whichever events end it and however touch and mouse events are
\* combined for it; an end event with no stroke in progress commits nothing.
C8_OneCommitPerStroke ==
  /\ [][(pointer.k # "none" /\ pointer'.k = "none" /\ track'.stroke)
          => track'.gesture = 1]_vars
  /\ [][(~StrokeOpen /\ (HandleMouseUp \/ HandleMouseLeave \/ HandleTouchEnd
                           \/ HandleTouchCancel \/ TapMouseUp))
          => (history' = history /\ redoHistory' = redoHistory)]_vars

\* C9: handleAddText with a non-empty string commits the snapshot that is
\* the previous top of history with the current string drawn at the current
\* anchor, whatever the preview rendering has done by then.
C9_AddTextCommitsCurrentText ==
  [][(textInput # "" /\ HandleAddText)
       => Last(history') =
            ToDataURL(FillText(Decode(Last(history)), textInput, textPosition))]_vars

\* C10: typing, rendering the preview and abandoning it (Escape, a tool
\* change or a mode change while the text input is open) leave the drawing
\* canvas, history, redoHistory and the stored record as they were.
C10_PreviewLeavesDrawing ==
  [][(HandleTextInputChange \/ UpdatePreview \/ PreviewLoaded
        \/ HandleCloseTextInput \/ CloseLoaded
        \/ (isAddingText /\ HandleToolChange)
        \/ (isAddingText /\ HandleModeChange))
       => (drawingCanvas' = drawingCanvas /\ history' = history
             /\ redoHistory' = redoHistory /\ store' = store)]_vars

\* the preview shows the typed text over the top snapshot, the drawing
\* canvas does not
C10_Witness ==
  /\ Mounted /\ isAddingText /\ textInput # ""
  /\ previewCanvas = FillText(Decode(Last(history)), textInput, textPosition)
  /\ drawingCanvas # previewCanvas
  /\ Len(history) = 1 /\ redoHistory = <<>>

\* C11: an image placement, by a search result, an uploaded file or a drop,
\* from the request to the end of the decode, leaves history and redoHistory
\* as they were; and undo and redo leave the base canvas and the stored
\* canvasData, which hold the placed images, as they were.
C11_PlacementOutsideHistory ==
  /\ [][(HandleSelectGame \/ HandleFileChange \/ HandleDrop
           \/ PlaceLoaded \/ PlaceFailed)
          => (history' = history /\ redoHistory' = redoHistory)]_vars
  /\ [][(HandleUndo \/ HandleRedo)
          => (baseCanvas' = baseCanvas /\ store'.canvasData = store.canvasData)]_vars

\* an image is on the base canvas and in the stored canvasData, with entries
\* on both stacks and an undo as the latest history operation
C11_Witness ==
  /\ Mounted /\ track.u >= 1 /\ track.r = 0
  /\ Len(history) >= 2 /\ redoHistory # <<>>
  /\ \E a \in Areas : baseCanvas[a] = ImgPaint("p")
  /\ store.canvasData = ToDataURL(baseCanvas)

\* C12: a placement, from the request to the end of the decode, draws on the
\* base canvas only: the drawing canvas and the stored drawingData are as
\* they were.
C12_PlacementLeavesDrawing ==
  [][(HandleSelectGame \/ HandleFileChange \/ HandleDrop \/ PlaceLoaded)
       => (drawingCanvas' = drawingCanvas
             /\ store'.drawingData = store.drawingData)]_vars

C14_StaleDecodeIsNoOp ==
  [][(PlaceLoaded /\ Len(placing) = 2 /\ placing[1] # placing[2]
        /\ placing' = <<placing[2]>>)
       => (baseCanvas' = baseCanvas /\ store' = store
             /\ formData' = formData /\ loads' = loads)]_vars

\* C15: when the image of a placement does not decode, the base canvas, the
\* drawing canvas, history, redoHistory and the stored record are as before
\* the request, and the failure is reported: something the page shows or
\* hands to its caller changes (the pending decode itself is not visible).
C15_FailedPlacementReported ==
  [][PlaceFailed
       => /\ baseCanvas' = baseCanvas /\ drawingCanvas' = drawingCanvas
          /\ history' = history /\ redoHistory' = redoHistory
          /\ store' = store
          /\ <<coreVars, clickedArea, showSearchDialog, showBlankAreas,
               hoveredArea, isDragging, downloaded, detect, fit>>'
             # <<coreVars, clickedArea, showSearchDialog, showBlankAreas,
                 hoveredArea, isDragging, downloaded, detect, fit>>]_vars

\* C16: when the drawing canvas gives no 2D context, a stroke or a text
\* placement fails alone: its handlers push nothing on history, leave
\* redoHistory as it was and do not write the stored record.
C16_NoContextNoCommit ==
  [][(~HasContext /\ (HandleMouseDown \/ HandleMouseMove \/ HandleMouseUp
                        \/ HandleMouseLeave \/ HandleAddText))
       => (history' = history /\ redoHistory' = redoHistory /\ store' = store)]_vars

\* C17: the image that save stores and download hands out shows, at every
\* location, the drawing canvas where it is painted and the base canvas
\* elsewhere, whatever the area highlight, the hovered area and the text
\* preview show; producing it leaves the base canvas, the drawing canvas and
\* both stacks as they were, and switching the area highlight changes none of
\* the canvases, the stacks or the stored record.
FlattenedHere(url) ==
  /\ url.kind = "png"
  /\ \A l \in Locs :
       url.px[l] = IF drawingCanvas[l] # Clear THEN drawingCanvas[l] ELSE baseCanvas[l]

LayersKept ==
  /\ baseCanvas' = baseCanvas /\ drawingCanvas' = drawingCanvas
  /\ history' = history /\ redoHistory' = redoHistory

C17_FlattenIsBaseUnderDrawing ==
  /\ [][SaveCompleteForm => (FlattenedHere(store'.canvasData) /\ LayersKept)]_vars
  /\ [][HandleDownload => (FlattenedHere(downloaded') /\ LayersKept /\ store' = store)]_vars
  /\ [][HandleShowBlankAreas => (LayersKept /\ store' = store /\ formData' = formData
                                  /\ previewCanvas' = previewCanvas)]_vars

C17_Witness ==
  /\ Mounted /\ showBlankAreas /\ hoveredArea # NoArea /\ previewCanvas # Blank
  /\ \E l, m \in Locs : drawingCanvas[l] # Clear /\ drawingCanvas[m] = Clear
  /\ downloaded = ToDataURL([l \in Locs |-> IF drawingCanvas[l] # Clear
                                              THEN drawingCanvas[l] ELSE baseCanvas[l]])
  /\ store.canvasData = downloaded

\* C18: once a stroke or a text has been committed or a commit undone or
\* redone, the stored record's drawingData is the last entry of history, and
\* stays so when a placement's image decodes later or the form is saved.
C18_StoredDrawingIsTop ==
  (Mounted /\ track.commits + track.undos + track.r >= 1)
    => store.drawingData = Last(history)

\* C19: for every image and either tolerance, every area the detector returns
\* has whole numbers of pixels for x, y, width and height, lies inside the
\* image (0 <= x, 0 <= y, x + width <= W, y + height <= H) and has a width
\* and a height above 0.
WholePixels(a) ==
  a.x % Halves = 0 /\ a.y % Halves = 0 /\ a.width % Halves = 0 /\ a.height % Halves = 0

InsideImage(a, img) ==
  /\ 0 <= a.x /\ 0 <= a.y
  /\ a.x + a.width <= Halves * ImageWidth(img)
  /\ a.y + a.height <= Halves * ImageHeight(img)
  /\ a.width > 0 /\ a.height > 0

C19_AreasInsideImage ==
  detect.by \in {"grid", "flood"}
    => \A k \in 1..Len(detect.areas) :
         WholePixels(detect.areas[k]) /\ InsideImage(detect.areas[k], detect.image)

\* C20: in what the detector returns no two areas share a pixel, and every
\* area is the bounding box of the accepted areas that lie in it.
SharePixel(a, b) ==
  /\ a.x < b.x + b.width /\ b.x < a.x + a.width
  /\ a.y < b.y + b.height /\ b.y < a.y + a.height

Within(a, b) ==
  /\ b.x <= a.x /\ a.x + a.width <= b.x + b.width
  /\ b.y <= a.y /\ a.y + a.height <= b.y + b.height

BoxOf(rects) ==
  LET x == SetMin({r.x : r \in rects})
      y == SetMin({r.y : r \in rects}) IN
  [x |-> x, y |-> y,
   width |-> SetMax({r.x + r.width : r \in rects}) - x,
   height |-> SetMax({r.y + r.height : r \in rects}) - y]

MergedInto(area) ==
  {InHalves(detect.accepted[k]) : k \in {n \in 1..Len(detect.accepted) :
                                          Within(InHalves(detect.accepted[n]), area)}}

C20_MergeFixedPoint ==
  detect.by \in {"grid", "flood"}
    => /\ \A i, j \in 1..Len(detect.areas) :
            i < j => ~SharePixel(detect.areas[i], detect.areas[j])
       /\ \A k \in 1..Len(detect.areas) :
            /\ MergedInto(detect.areas[k]) # {}
            /\ detect.areas[k] = BoxOf(MergedInto(detect.areas[k]))

\* C21: every area a detector returns contains at least minPixelCount pixels
\* of one connected component of bright pixels that has at least
\* minPixelCount pixels; so when every bright component is smaller the
\* detector returns nothing.  A pixel is bright when it passes the cutoff of
\* the detector that ran.
BrightCutoff ==
  IF detect.by = "flood" THEN brightnessThreshold
  ELSE threshold(detect.highTolerance) + 1

BrightComponents ==
  LET w == ImageWidth(detect.image)
      h == ImageHeight(detect.image)
      bright == {i \in 0..(w * h - 1) :
                   GrayAt(detect.image, i % w, i \div w) >= BrightCutoff}
      fills == Fills(bright, w, h) IN
  {fills[k] : k \in 1..Len(fills)}

PixelsIn(filled, area) ==
  LET w == ImageWidth(detect.image) IN
  Cardinality({i \in filled :
                 /\ area.x <= Halves * (i % w)
                 /\ Halves * (i % w) + Halves <= area.x + area.width
                 /\ area.y <= Halves * (i \div w)
                 /\ Halves * (i \div w) + Halves <= area.y + area.height})

C21_MinPixelCount ==
  detect.by \in {"grid", "flood"}
    => \A k \in 1..Len(detect.areas) :
         \E filled \in BrightComponents :
           /\ Cardinality(filled) >= minPixelCount
           /\ PixelsIn(filled, detect.areas[k]) >= minPixelCount

\* C22: no area a detector returns is the bounding box of a connected
\* component of bright pixels whose width / height and height / width both
\* lie outside [minAspectRatio, maxAspectRatio].
OutsideAspectRatio(width, height) ==
  /\ 10 * width < minAspectRatioTenths * height \/ width > maxAspectRatio * height
  /\ 10 * height < minAspectRatioTenths * width \/ height > maxAspectRatio * width

C22_AspectRatio ==
  detect.by \in {"grid", "flood"}
    => \A k \in 1..Len(detect.areas) : \A filled \in BrightComponents :
         LET box == FillBox(filled, ImageWidth(detect.image)) IN
         OutsideAspectRatio(box.width, box.height) => detect.areas[k] # InHalves(box)

\* C23: when the bright pixels of an image on a black background are two
\* rectangles that share a pixel, each with at least minPixelCount pixels and
\* a valid aspect ratio, the flood-fill detector returns exactly one area,
\* the bounding box of the two.
BlockRectangles(img) ==
  {r \in [x0 : 1..Len(img.rows[1]), x1 : 1..Len(img.rows[1]),
          y0 : 1..Len(img.rows), y1 : 1..Len(img.rows)] :
     r.x0 <= r.x1 /\ r.y0 <= r.y1}

BlocksOf(r) == (r.x0 .. r.x1) \X (r.y0 .. r.y1)

RectangleOf(img, r) ==
  [x |-> (r.x0 - 1) * img.unit, y |-> (r.y0 - 1) * img.unit,
   width |-> (r.x1 - r.x0 + 1) * img.unit, height |-> (r.y1 - r.y0 + 1) * img.unit]

Acceptable(a) ==
  a.width * a.height >= minPixelCount /\ ~OutsideAspectRatio(a.width, a.height)

TwoRectangles(img, r1, r2) ==
  /\ img.dark = 0 /\ img.border = 0
  /\ BlocksOf(r1) \cap BlocksOf(r2) # {}
  /\ {b \in (1..Len(img.rows[1])) \X (1..Len(img.rows)) : img.rows[b[2]][b[1]]}
       = BlocksOf(r1) \cup BlocksOf(r2)
  /\ Acceptable(RectangleOf(img, r1)) /\ Acceptable(RectangleOf(img, r2))

C23_OverlappingRectangles ==
  detect.by = "flood"
    => \A r1, r2 \in BlockRectangles(detect.image) :
         TwoRectangles(detect.image, r1, r2)
           => detect.areas = <<InHalves(BoundingBox(RectangleOf(detect.image, r1),
                                                    RectangleOf(detect.image, r2)))>>

\* C24: for a white image of W x H pixels with a black frame of one pixel,
\* whose inside has at least minPixelCount pixels and a valid aspect ratio,
\* a detector returns exactly the one area {1, 1, W - 2, H - 2}.
Framed(img) ==
  /\ img.border = 1
  /\ \A r \in 1..Len(img.rows) : \A c \in 1..Len(img.rows[r]) : img.rows[r][c]

Inside(img) ==
  [x |-> 1, y |-> 1, width |-> ImageWidth(img) - 2, height |-> ImageHeight(img) - 2]

C24_FramedImage ==
  /\ detect.by \in {"grid", "flood"}
  /\ Framed(detect.image)
  /\ Acceptable(Inside(detect.image))
  => detect.areas = <<InHalves(Inside(detect.image))>>

\* C25: every call of a detector eventually resolves, and it resolves with
\* no areas when the image has no pixels, cannot be decoded, or the canvas
\* gives no 2D context.
Resolved == detect.by \in {"grid", "flood"}

C25_AlwaysResolves ==
  <>(Resolved /\ (detect.input # "image" => detect.areas = <<>>))

\* --------------------------------------------------------------- C26
\* |a - b| <= bound, on values before rounding
Apart(a, b) ==
  LET d == ExactAdd(a, Negate(b)) IN [d EXCEPT !.neg = FALSE]

UpTo(a, b, bound) == AtMost(Apart(a, b), bound)

\* the relative error allowed: none, and that of two roundings, 2^-51
Exactly == Whole(0)

TwoRoundings == [neg |-> FALSE, m |-> BigOf(1), e |-> -51]

\* the crop of a placement drawn in crop-fill mode, with the error
\* n * relative allowed on a value of the size of n: the crop lies within the
\* image, is centred in it, has the aspect ratio of the area
\* (sWidth * destHeight = sHeight * destWidth) and spans the whole width or
\* the whole height of the image; it is drawn onto the whole area; the crop
\* of a 16:9 image into a square area is the centred square whose side is
\* the height of the image
CropFillGeometry(relative) ==
  fit.drawn /\ fit.adaptiveUpload
    => LET s == fit.s
           d == fit.d
           W == Whole(fit.img.width)
           H == Whole(fit.img.height)
           dest == AreaRect(fit.area) IN
       /\ AtMost(Negate(ExactMul(W, relative)), s.x)
       /\ AtMost(Negate(ExactMul(H, relative)), s.y)
       /\ Less(Whole(0), s.width) /\ Less(Whole(0), s.height)
       /\ AtMost(ExactAdd(s.x, s.width), ExactAdd(W, ExactMul(W, relative)))
       /\ AtMost(ExactAdd(s.y, s.height), ExactAdd(H, ExactMul(H, relative)))
       /\ UpTo(ExactAdd(ExactMul(Whole(2), s.x), s.width), W, ExactMul(W, relative))
       /\ UpTo(ExactAdd(ExactMul(Whole(2), s.y), s.height), H, ExactMul(H, relative))
       /\ UpTo(ExactMul(s.width, dest.height), ExactMul(s.height, dest.width),
               ExactMul(ExactMul(s.height, dest.width), relative))
       /\ \/ SameValue(s.width, W) /\ SameValue(s.x, Whole(0))
          \/ SameValue(s.height, H) /\ SameValue(s.y, Whole(0))
       /\ SameValue(d.x, dest.x) /\ SameValue(d.y, dest.y)
       /\ SameValue(d.width, dest.width) /\ SameValue(d.height, dest.height)
       /\ (/\ fit.img.width * 9 = fit.img.height * 16
           /\ fit.area.width = fit.area.height)
            => /\ SameValue(s.width, H) /\ SameValue(s.height, H)
               /\ SameValue(s.y, Whole(0))
               /\ SameValue(ExactAdd(ExactMul(Whole(2), s.x), H), W)

\* C26 as stated: in crop-fill mode, for all positive source and destination
\* dimensions, the source crop lies within the source image, is centred in
\* it, has exactly the destination's aspect ratio, spans the full source
\* width or height and is mapped onto the whole destination; a 16:9 source
\* and a 1:1 destination give the centred square of side the source height
C26_CropFillExact == CropFillGeometry(Exactly)

\* C26 (amended): the same, where "within", "centred" and "the destination's
\* aspect ratio" hold up to the rounding of the Number arithmetic (a
\* relative error of 2^-51); the full span, the destination rectangle and
\* the 16:9 into 1:1 case are exact
C26_CropFill == CropFillGeometry(TwoRoundings)

\* a 16:9 image has been cropped into a square area, and a 7:5 image into
\* an area that is neither square nor of its ratio
C26_Witness ==
  /\ fit.drawn /\ fit.adaptiveUpload
  /\ \/ fit.img.width * 9 = fit.img.height * 16 /\ fit.area.width = fit.area.height
     \/ /\ fit.img = [width |-> 7, height |-> 5]
        /\ fit.area.width * 5 > fit.area.height * 7
        /\ ~SameValue(fit.s.y, Whole(0))

\* --------------------------------------------------------------- C27
\* the rectangle of a placement drawn in letterbox mode, with the error
\* n * relative allowed on a value of the size of n: the whole image is
\* drawn, scaled by min(destWidth / sourceWidth, destHeight / sourceHeight),
\* so that the rectangle has the width or the height of the area and the
\* aspect ratio of the image; it lies inside the area and is centred in it
LetterboxGeometry(relative) ==
  fit.drawn /\ ~fit.adaptiveUpload
    => LET s == fit.s
           d == fit.d
           W == Whole(fit.img.width)
           H == Whole(fit.img.height)
           dest == AreaRect(fit.area)
           right == ExactAdd(dest.x, dest.width)
           bottom == ExactAdd(dest.y, dest.height)
           byWidth == AtMost(ExactMul(dest.width, H), ExactMul(dest.height, W)) IN
       /\ SameValue(s.x, Whole(0)) /\ SameValue(s.y, Whole(0))
       /\ SameValue(s.width, W) /\ SameValue(s.height, H)
       /\ IF byWidth
            THEN /\ UpTo(d.width, dest.width, ExactMul(dest.width, relative))
                 /\ UpTo(ExactMul(d.height, W), ExactMul(H, dest.width),
                         ExactMul(ExactMul(H, dest.width), relative))
            ELSE /\ UpTo(d.height, dest.height, ExactMul(dest.height, relative))
                 /\ UpTo(ExactMul(d.width, H), ExactMul(W, dest.height),
                         ExactMul(ExactMul(W, dest.height), relative))
       /\ UpTo(ExactMul(d.width, H), ExactMul(d.height, W),
               ExactMul(ExactMul(d.height, W), relative))
       /\ AtMost(ExactAdd(dest.x, Negate(ExactMul(right, relative))), d.x)
       /\ AtMost(ExactAdd(dest.y, Negate(ExactMul(bottom, relative))), d.y)
       /\ AtMost(ExactAdd(d.x, d.width), ExactAdd(right, ExactMul(right, relative)))
       /\ AtMost(ExactAdd(d.y, d.height), ExactAdd(bottom, ExactMul(bottom, relative)))
       /\ UpTo(ExactAdd(ExactMul(Whole(2), ExactAdd(d.x, Negate(dest.x))), d.width),
               dest.width, ExactMul(right, relative))
       /\ UpTo(ExactAdd(ExactMul(Whole(2), ExactAdd(d.y, Negate(dest.y))), d.height),
               dest.height, ExactMul(bottom, relative))

\* C27 as stated: in letterbox mode, for all positive source and destination
\* dimensions, the whole source image is scaled by
\* min(destWidth / sourceWidth, destHeight / sourceHeight); the rectangle
\* drawn keeps the source's aspect ratio, lies entirely inside the
\* destination, is centred in it and fills it along at least one axis
C27_LetterboxExact == LetterboxGeometry(Exactly)

\* C27 (amended): the same up to the rounding of the Number arithmetic: a
\* relative error of 2^-51 on the scaled width and height, on the aspect
\* ratio and on the position of the rectangle in the area
C27_Letterbox == LetterboxGeometry(TwoRoundings)

\* a 16:9 image has been letterboxed into a square area, which it leaves
\* uncovered above and below
C27_Witness ==
  /\ fit.drawn /\ ~fit.adaptiveUpload
  /\ fit.img.width * 9 = fit.img.height * 16
  /\ fit.area.width = fit.area.height
  /\ Less(fit.d.height, Half(fit.area.height))
  /\ Less(Half(fit.area.y), fit.d.y)

\* --------------------------------------------------------------- C28
\* no image load is pending and no gesture is in progress
Settled ==
  /\ Mounted /\ HasContext
  /\ loads = {} /\ rafQueue = <<>>
  /\ pointer.k = "none" /\ ~isDrawing

\* C28: after any sequence of commits, undos and redos, once every pending
\* image load has completed the drawing canvas shows the snapshot on top of
\* history, whatever the order in which the loads completed
C28_LoadsSettleOnTop ==
  Settled /\ history # <<>> => drawingCanvas = Decode(Last(history))

\* --------------------------------------------------------------- C29
\* C29: the points of a stroke are applied in the order of its events, and
\* the snapshot committed when the stroke ends contains every segment of the
\* stroke on top of the previous top snapshot, however the stroke's events
\* interleave with the completions of the image loads pending when it began.
\* For a brush stroke ended by the mouse: every point of the path is inked in
\* the snapshot, which is transparent nowhere the previous top snapshot was
\* painted
C29_StrokeInSnapshot ==
  [][(/\ HandleMouseUp /\ StrokeOpen /\ HasContext
      /\ currentTool = "draw" /\ history # <<>>)
       => LET snapshot == Decode(Last(history'))
              previous == Decode(Last(history)) IN
          \A l \in Locs :
            /\ l \in ctx.pts => snapshot[l] = <<"ink", "brush">>
            /\ previous[l] # Clear => snapshot[l] # Clear]_vars

\* --------------------------------------------------------------- C30
\* C30: the base canvas never holds content of the drawing layer: after any
\* strokes, text commits, saves, reloads and undos it shows the form image
\* and the images placed in it only (so that a stroke undone after a save is
\* no longer in the flattened image)
C30_BaseWithoutDrawing ==
  \A l \in Locs : baseCanvas[l][1] \in {"clear", "form", "img"}

\* ------------------------------------------------------------------- C31
\* the pixels of the image the detector runs on
FloodPixels == 0..(ImageWidth(detect.image) * ImageHeight(detect.image) - 1)

\* the loops have begun
FloodBegun == detect.call = "flood" /\ detect.run.marks # <<>>

FloodDone == detect.run.pc = "done"

\* no pixel is marked or enqueued twice, a pixel taken from the queue is in
\* one fill only, and the merges are fewer than the accepted rectangles
FloodBounded ==
  FloodBegun =>
    /\ \A i \in FloodPixels :
         /\ detect.run.marks[i + 1] <= 1
         /\ detect.run.pushes[i + 1] <= 1
         /\ Cardinality({k \in 1..Len(detect.run.fills) : i \in detect.run.fills[k]})
              + (IF i \in detect.run.current /\ detect.run.pc = "fill" THEN 1 ELSE 0) <= 1
    /\ detect.run.merges <= Max(Len(detect.run.components) - 1, 0)

\* at the end every pixel was marked once, the bright pixels are those
\* enqueued, each is in exactly one fill, and two bright neighbours are in
\* the same fill
FloodComplete ==
  FloodDone =>
    /\ \A i \in FloodPixels :
         /\ detect.run.marks[i + 1] = 1
         /\ detect.run.pushes[i + 1] = (IF Bright(detect.image, i) THEN 1 ELSE 0)
         /\ Bright(detect.image, i) =>
              \E k \in 1..Len(detect.run.fills) :
                /\ i \in detect.run.fills[k]
                /\ \A n \in Neighbors(i, ImageWidth(detect.image),
                                      ImageHeight(detect.image)) :
                     Bright(detect.image, n) => n \in detect.run.fills[k]
    /\ \A k \in 1..Len(detect.run.fills) :
         \A i \in detect.run.fills[k] : Bright(detect.image, i)

\* C31: detection terminates on every raster, a checkerboard included: each
\* pixel is marked visited exactly once and enqueued at most once by the
\* 4-connectivity flood fill, every bright pixel belongs to exactly one
\* component, and the merge loop ends after at most (accepted rectangles - 1)
\* merges (none when nothing was accepted).
C31_DetectionTerminates ==
  /\ [](FloodBounded /\ FloodComplete)
  /\ <>FloodDone

\* the run ended on the checkerboard: sixteen pixels marked, eight fills of
\* one pixel, nothing accepted and nothing merged
C31_Witness ==
  /\ FloodDone
  /\ ImageWidth(detect.image) = 4
  /\ \A i \in FloodPixels : detect.run.marks[i + 1] = 1
  /\ Len(detect.run.fills) = 8
  /\ detect.run.components = <<>>
  /\ detect.run.merges = 0

\* ------------------------------------------------------------------- C32
\* what the dialog shows of a search
Shows == <<dialog.searchResults, dialog.totalResults, dialog.searchStatus,
           dialog.isLoading>>

\* the search was superseded: a new search, the clearing of the search, the
\* closing of the dialog or the unmounting aborted it
Superseded(s) == dialog.searches[s].aborted

\* this step is one of search s: a continuation of searchGames or one of
\* its timeouts
StepOf(s) == dialog'.searches[s] # dialog.searches[s]

\* C32: once a search is superseded, no message, error, completion or
\* timeout of it changes searchResults, totalResults, searchStatus or
\* isLoading.
C32_SupersededIsSilent ==
  [][\A s \in Searches : Superseded(s) /\ StepOf(s) => Shows' = Shows]_vars

\* the first search was aborted by the second while it read its stream and
\* has returned; the second is loading
C32_Witness ==
  /\ Len(dialog.searches) = 2
  /\ dialog.searches[1].aborted
  /\ dialog.searches[1].pc = "returned"
  /\ dialog.searches[1].streamTimer # "none"
  /\ dialog.abortControllerRef = 2
  /\ dialog.isLoading

\* ------------------------------------------------------------------- C33
\* search s, not superseded, returns in this step
Finishes(s) ==
  /\ ~Superseded(s)
  /\ dialog.searches[s].pc # "returned"
  /\ dialog'.searches[s].pc = "returned"

\* C33: once the current search has reported an error (an 'error' message
\* or the stream timeout), the status shown when it finishes is 'error'.
C33_ErrorStatusKept ==
  [][\A s \in Searches :
       Finishes(s) /\ dialog'.searches[s].reported
         => dialog'.searchStatus.state = "error"]_vars

\* ------------------------------------------------------------------- C37
\* the dialog is shown and every search started has returned
AllReturned ==
  /\ Shown
  /\ \A s \in Searches : dialog.searches[s].pc = "returned"

\* C37: every search started returns in the end (time and again every
\* search has returned), and once the searches have
\* returned and the dialog is shown isLoading is false and
\* abortControllerRef holds no controller.
C37_LeavesLoading ==
  /\ [](AllReturned => ~dialog.isLoading /\ dialog.abortControllerRef = NoController)
  /\ []<>(\A s \in Searches : dialog.searches[s].pc = "returned")

\* a search was aborted by the closing of the dialog while isLoading was
\* true, it has returned, and the dialog is shown again
C37_Witness ==
  /\ AllReturned
  /\ \E s \in Searches : dialog.searches[s].aborted
  /\ dialog.searchStatus.state = "idle"
  /\ dialog.lastSearchTerm # ""

\* ------------------------------------------------------------------- C34
\* the chunks of type t written
Written(t) == SelectSeq(route.written, LAMBDA c : c.type = t)

\* the response is a stream whose client reads it to the end
StreamRead == route.status = 200 /\ route.writer # "errored"

\* C34: a response stream starts with 'init'; no chunk follows an 'end',
\* nothing is written to a closed writer and it is not closed twice; and
\* when doSearch is done, for every outcome read to the end, there is
\* exactly one 'end', the last chunk, and the writer was closed once.
C34_OneEndLast ==
  /\ route.written # <<>> => route.written[1].type = "init"
  /\ Len(Written("end")) <= 1
  /\ Written("end") # <<>> => route.written[Len(route.written)].type = "end"
  /\ route.late = 0 /\ route.closes <= 1
  /\ route.pc = "done" /\ StreamRead =>
       /\ Len(Written("end")) = 1
       /\ route.closes = 1 /\ route.writer = "closed"

\* doSearch is done after an upstream error that followed a game: 'error'
\* and 'end' were written by the catch block
C34_Witness ==
  /\ route.pc = "done" /\ StreamRead
  /\ Written("error") # <<>>
  /\ Written("gameComplete") # <<>>
  /\ route.written[Len(route.written)].type = "end"

\* ------------------------------------------------------------------- C35
RECURSIVE Pow(_, _)
Pow(b, n) == IF n = 0 THEN 1 ELSE b * Pow(b, n - 1)

\* the attempts before the last all threw
EarlierThrew ==
  \A k \in 1..(Len(retrying.attempts) - 1) : retrying.attempts[k].threw

\* C35: fetchWithRetry makes at most retries + 1 attempts; it returns the
\* response of the first attempt that does not throw, whatever its status;
\* the k-th wait is delay * 1.5^(k-1), one wait after each failed attempt
\* but the last; and when every attempt threw, the error thrown is that of
\* the last attempt.
C35_RetriesThenThrowsLast ==
  /\ Len(retrying.attempts) <= retrying.retries + 1
  /\ EarlierThrew
  /\ \A k \in 1..Len(retrying.waits) :
       retrying.waits[k].num * Pow(2, k - 1)
         = retrying.first.num * Pow(3, k - 1) * retrying.waits[k].den
  /\ retrying.pc \in {"attempt", "returned", "threw"} =>
       Len(retrying.waits) = Len(retrying.attempts) - (IF retrying.pc = "attempt" THEN 0 ELSE 1)
  /\ retrying.pc = "returned" =>
       /\ ~retrying.attempts[Len(retrying.attempts)].threw
       /\ retrying.result = <<Len(retrying.attempts) - 1,
                           retrying.attempts[Len(retrying.attempts)].status>>
  /\ retrying.pc = "threw" =>
       /\ Len(retrying.attempts) = retrying.retries + 1
       /\ retrying.attempts[Len(retrying.attempts)].threw
       /\ retrying.thrown = <<retrying.retries,
                           retrying.attempts[Len(retrying.attempts)].error>>

\* three attempts threw, with two waits, and the last error was thrown
C35_Witness ==
  /\ retrying.pc = "threw" /\ retrying.retries = 2
  /\ Len(retrying.waits) = 2
  /\ retrying.attempts[1].error # retrying.attempts[3].error

\* ------------------------------------------------------------------- C36
\* the parameter is missing, cannot be parsed, or is not of the host and
\* paths allowed
NotAllowed(param) ==
  \/ param = NoUrl
  \/ Unparsable(param[1])
  \/ LowerCase(param[1].host) # "lain.bgm.tv"
  \/ LET pathname == RemoveDots(param[1].path, <<>>) IN
     ~(Len(pathname) >= 3 /\ pathname[1] = "pic" /\ pathname[2] \in {"cover", "crt"})

\* C36: an upstream fetch is issued only for a URL whose hostname is
\* lain.bgm.tv and whose pathname starts with /pic/cover/ or /pic/crt/; a
\* missing, unparsable or other URL is answered 400 without a fetch.
C36_OnlyAllowedFetched ==
  /\ \A u \in proxy.fetched : ~NotAllowed(<<u>>)
  /\ proxy.pc # "idle" /\ NotAllowed(proxy.param) =>
       proxy.status = 400 /\ proxy.fetched = {} /\ proxy.pc = "done"

\* a URL of another host with lain.bgm.tv before an @ was answered 400
C36_Witness ==
  /\ proxy.pc = "done" /\ proxy.status = 400 /\ proxy.fetched = {}
  /\ proxy.param # NoUrl
  /\ proxy.param[1].userinfo = "lain.bgm.tv"
  /\ proxy.param[1].host = "evil.example"
  /\ StartsWith(UrlObj(proxy.param[1]).pathname, "pic", "cover")

\* ------------------------------------------------------------------- C38
\* C38: loading a form terminates: isLoading becomes false, and when a form
\* was found history then holds one entry.
C38_LoadingEnds ==
  <>(~isLoading /\ (formData.present => Len(history) = 1))

\* ------------------------------------------------------------------- C39
\* no text entry is in progress and no image load or preview is pending
TextAtRest ==
  Mounted /\ ~isAddingText /\ textInput = "" /\ loads = {} /\ rafQueue = <<>>

\* C39: whenever no text entry is in progress and no load is pending, what
\* is displayed (base canvas, drawing canvas, preview canvas on top) is the
\* flattened image of the base and drawing canvases.
C39_PreviewShowsCommitted ==
  TextAtRest =>
    FlattenWithPreview(baseCanvas, drawingCanvas) = Flatten(baseCanvas, drawingCanvas)
====
